---- MODULE Spec2Model ----
(***************************************************************************)
(* Clout Calculator: the scoring engine of artistToolsScraper.js and the   *)
(* two aggregation endpoints of server.js.                                 *)
(*                                                                         *)
(* Numbers.  Every JavaScript Number the scoring code computes is a        *)
(* floating-point value.  It is modelled as a decimal floating-point       *)
(* record [k, m, e]: k = "fin" is the finite value m * 10^e with m = 0     *)
(* (and e = 0) or 10^7 <= |m| < 10^8 (eight significant digits, rounded to *)
(* nearest); k = "inf" is +Infinity (m = 1) or -Infinity (m = -1);         *)
(* k = "nan" is NaN.  The representation is canonical, so record equality  *)
(* is numeric equality (and NaN = NaN: the model compares values, not the  *)
(* result of the === operator).  Listener and follower counts are          *)
(* integers, as Spotify delivers them.                                     *)
(*                                                                         *)
(* Time.  addedDate is given by monthsAgo, the number of whole 30-day      *)
(* periods between addedDate and the clock reading `new Date()`; a         *)
(* negative value is a date in the future.                                 *)
(***************************************************************************)
EXTENDS Integers, Sequences, FiniteSets, TLC

----------------------------------------------------------------------------
(* Integer helpers *)

Abs(x) == IF x < 0 THEN -x ELSE x

Sign(x) == IF x < 0 THEN -1 ELSE IF x > 0 THEN 1 ELSE 0

Max2(a, b) == IF a >= b THEN a ELSE b

(* <<floor(a*b / 10^(4+j)), rest>> for 0 <= a, b < 10^8 and j in 3..4,      *)
(* computed without forming a*b, from the four partial products of the     *)
(* halves of a and b; rest is the remainder's leading part, in units of    *)
(* 10^4.                                                                   *)
MulShift(a, b, j) ==
  LET ah == a \div 10^4
      al == a % 10^4
      bh == b \div 10^4
      bl == b % 10^4
      t  == ah * bl + al * bh + ((al * bl) \div 10^4)
  IN <<ah * bh * 10^(4 - j) + (t \div 10^j), t % 10^j>>

(* a*b / 10^7 rounded to the nearest integer. *)
MulNear(a, b) ==
  LET qr == MulShift(a, b, 3)
  IN IF 2 * qr[2] >= 10^3 THEN qr[1] + 1 ELSE qr[1]

(* Long division: n more decimal digits of the quotient q, remainder r,    *)
(* divisor 0 < d < 10^8.                                                   *)
RECURSIVE LongDiv(_, _, _, _)
LongDiv(q, r, d, n) ==
  IF n = 0 THEN <<q, r>>
  ELSE LongDiv(q * 10 + ((r * 10) \div d), (r * 10) % d, d, n - 1)

(* a * 10^8 / d rounded to the nearest integer, for 0 <= a < 10 * d. *)
DivNear(a, d) ==
  LET qr == LongDiv(a \div d, a % d, d, 8)
  IN IF 2 * qr[2] >= d THEN qr[1] + 1 ELSE qr[1]

----------------------------------------------------------------------------
(* JavaScript Numbers *)

NaN == [k |-> "nan", m |-> 0, e |-> 0]

Infinity(s) == [k |-> "inf", m |-> s, e |-> 0]

Zero == [k |-> "fin", m |-> 0, e |-> 0]

IsFinite(x) == x.k = "fin"

(* The canonical finite number of value m * 10^e. *)
RECURSIVE Norm(_, _)
Norm(m, e) ==
  IF m = 0 THEN Zero
  ELSE IF Abs(m) >= 10^8 THEN Norm(Sign(m) * ((Abs(m) + 5) \div 10), e + 1)
  ELSE IF Abs(m) < 10^7 THEN Norm(m * 10, e - 1)
  ELSE [k |-> "fin", m |-> m, e |-> e]

(* The Number of an integer, and of a decimal literal such as 0.013. *)
Num(n) == Norm(n, 0)

Dec(m, e) == Norm(m, e)

Neg(x) == [x EXCEPT !.m = -x.m]

SignOf(x) == Sign(x.m)

(* x * y *)
Mul(x, y) ==
  IF x.k = "nan" \/ y.k = "nan" THEN NaN
  ELSE IF x.k = "inf" \/ y.k = "inf"
       THEN IF SignOf(x) * SignOf(y) = 0 THEN NaN
            ELSE Infinity(SignOf(x) * SignOf(y))
  ELSE IF x.m = 0 \/ y.m = 0 THEN Zero
  ELSE Norm(SignOf(x) * SignOf(y) * MulNear(Abs(x.m), Abs(y.m)),
            x.e + y.e + 7)

(* x / y *)
Div(x, y) ==
  IF x.k = "nan" \/ y.k = "nan" THEN NaN
  ELSE IF x.k = "inf"
       THEN IF y.k = "inf" THEN NaN
            ELSE Infinity(IF SignOf(y) < 0 THEN -SignOf(x) ELSE SignOf(x))
  ELSE IF y.k = "inf" THEN Zero
  ELSE IF y.m = 0
       THEN IF x.m = 0 THEN NaN ELSE Infinity(SignOf(x))
  ELSE IF x.m = 0 THEN Zero
  ELSE Norm(SignOf(x) * SignOf(y) * DivNear(Abs(x.m), Abs(y.m)),
            x.e - y.e - 8)

(* m / 10^k rounded to nearest, for aligning exponents. *)
Shift(m, k) ==
  IF k = 0 THEN m
  ELSE IF k > 8 THEN 0
  ELSE Sign(m) * ((Abs(m) + (10^k \div 2)) \div 10^k)

(* x + y *)
Add(x, y) ==
  IF x.k = "nan" \/ y.k = "nan" THEN NaN
  ELSE IF x.k = "inf"
       THEN IF y.k = "inf" /\ y.m # x.m THEN NaN ELSE x
  ELSE IF y.k = "inf" THEN y
  ELSE IF x.m = 0 THEN y
  ELSE IF y.m = 0 THEN x
  ELSE LET e == Max2(x.e, y.e)
       IN Norm(Shift(x.m, e - x.e) + Shift(y.m, e - y.e), e)

Sub(x, y) == Add(x, Neg(y))

(* x < y, false when either is NaN. *)
Less(x, y) ==
  IF x.k = "nan" \/ y.k = "nan" THEN FALSE
  ELSE IF x.k = "inf" THEN x.m < 0 /\ ~(y.k = "inf" /\ y.m < 0)
  ELSE IF y.k = "inf" THEN y.m > 0
  ELSE IF SignOf(x) # SignOf(y) THEN SignOf(x) < SignOf(y)
  ELSE IF SignOf(x) = 0 THEN FALSE
  ELSE IF SignOf(x) > 0 THEN x.e < y.e \/ (x.e = y.e /\ x.m < y.m)
  ELSE x.e > y.e \/ (x.e = y.e /\ x.m < y.m)

(* Math.min(x, y) *)
MathMin(x, y) ==
  IF x.k = "nan" \/ y.k = "nan" THEN NaN
  ELSE IF Less(y, x) THEN y ELSE x

(* Math.max(x, y) *)
MathMax(x, y) ==
  IF x.k = "nan" \/ y.k = "nan" THEN NaN
  ELSE IF Less(x, y) THEN y ELSE x

(* Math.abs(x) *)
MathAbs(x) == [x EXCEPT !.m = Abs(x.m)]

(* Math.round(x): the nearest integer, halves towards +Infinity. *)
MathRound(x) ==
  IF x.k # "fin" \/ x.e >= 0 THEN x
  ELSE IF -x.e > 8 THEN Zero
  ELSE Num((2 * x.m + 10^(-x.e)) \div (2 * 10^(-x.e)))

(* Math.floor(x) of a finite x whose floor is a 31-bit integer, as an      *)
(* integer.                                                                *)
FloorInt(x) ==
  IF x.e >= 0 THEN x.m * 10^x.e
  ELSE IF -x.e > 8 THEN (IF x.m < 0 THEN -1 ELSE 0)
  ELSE x.m \div 10^(-x.e)

(* Math.pow(b, n) for an integer exponent n. *)
RECURSIVE MathPow(_, _)
MathPow(b, n) ==
  IF n = 0 THEN Num(1)
  ELSE IF n < 0 THEN Div(Num(1), MathPow(b, -n))
  ELSE Mul(MathPow(b, n - 1), b)

(* The number of decimal digits of n >= 1, less one: floor(log10(n)). *)
RECURSIVE Digits(_)
Digits(n) == IF n < 10 THEN 0 ELSE 1 + Digits(n \div 10)

(* The first `bits` binary digits of log10(y / 10^7) for 10^7 <= y < 10^8, *)
(* by repeated squaring; acc collects them.                                *)
RECURSIVE LogFrac(_, _, _)
LogFrac(y, bits, acc) ==
  IF bits = 0 THEN acc
  ELSE IF y >= 31622777
       THEN LogFrac(MulShift(y, y, 4)[1], bits - 1, 2 * acc + 1)
       ELSE LogFrac(MulShift(y, y, 3)[1], bits - 1, 2 * acc)

(* Math.log10(n) for an integer n >= 0: exact on the powers of ten, to     *)
(* 2^-20 elsewhere; -Infinity at 0.                                        *)
MathLog10(n) ==
  IF n = 0 THEN Infinity(-1)
  ELSE LET d == Digits(n)
           y == IF d <= 7 THEN n * 10^(7 - d) ELSE n \div 10^(d - 7)
       IN Add(Num(d), Div(Num(LogFrac(y, 20, 0)), Num(2^20)))

(* Math.sqrt(n) for an integer n >= 0, by Newton's iteration from n until  *)
(* it settles; exact on the perfect squares.                               *)
RECURSIVE SqrtIter(_, _, _)
SqrtIter(a, x, fuel) ==
  LET y == Div(Add(x, Div(a, x)), Num(2))
  IN IF fuel = 0 \/ y = x THEN x ELSE SqrtIter(a, y, fuel - 1)

MathSqrt(n) == IF n = 0 THEN Zero ELSE SqrtIter(Num(n), Num(n), 40)

----------------------------------------------------------------------------
(* artistToolsScraper.js *)

(* The clock and the dates are counted in hours; a "month" of the code is  *)
(* 1000 * 60 * 60 * 24 * 30 ms.  The model takes addedDate a whole number  *)
(* of such months away from the clock reading.                             *)
HoursPerMonth == 24 * 30

MonthsAgo(now, addedDate) == (now - addedDate) \div HoursPerMonth

spotifyGrowthRate_Annual == Dec(17, -3)

spotifyGrowthRate == Dec(13, -3)

artistGrowthRate_Inclusive(currentListeners) ==
  IF currentListeners <= 10000 THEN Dec(5, -2)
  ELSE IF currentListeners <= 100000 THEN Dec(3, -2)
  ELSE IF currentListeners <= 1000000 THEN Dec(2, -2)
  ELSE Dec(1, -2)

artistGrowthRate(currentListeners) ==
  IF currentListeners < 10000 THEN Dec(5, -2)
  ELSE IF currentListeners < 100000 THEN Dec(3, -2)
  ELSE IF currentListeners < 1000000 THEN Dec(2, -2)
  ELSE Dec(1, -2)

estimateListenersAtDate_ExtraMonth(currentListeners, addedDate, now) ==
  LET monthsAgo == MonthsAgo(now, addedDate) + 1
      combinedGrowthRate == Add(artistGrowthRate(currentListeners), spotifyGrowthRate)
      estimatedPastListeners ==
        Div(Num(currentListeners), MathPow(Add(Num(1), combinedGrowthRate), monthsAgo))
  IN FloorInt(estimatedPastListeners)

estimateListenersAtDate_Grown(currentListeners, addedDate, now) ==
  LET monthsAgo == MonthsAgo(now, addedDate)
      combinedGrowthRate == Add(artistGrowthRate(currentListeners), spotifyGrowthRate)
      estimatedPastListeners ==
        Mul(Num(currentListeners), MathPow(Add(Num(1), combinedGrowthRate), monthsAgo))
  IN FloorInt(estimatedPastListeners)

estimateListenersAtDate(currentListeners, addedDate, now) ==
  LET monthsAgo == MonthsAgo(now, addedDate)
      combinedGrowthRate == Add(artistGrowthRate(currentListeners), spotifyGrowthRate)
      estimatedPastListeners ==
        Div(Num(currentListeners), MathPow(Add(Num(1), combinedGrowthRate), monthsAgo))
  IN FloorInt(estimatedPastListeners)

calculateGrowth(currentListeners, pastListeners) ==
  IF pastListeners = 0 THEN Zero
  ELSE Mul(Div(Num(currentListeners - pastListeners), Num(pastListeners)), Num(100))

(* calculateInflationAdjustedGrowth with the zero guard of calculateGrowth *)
calculateInflationAdjustedGrowth_Guarded(currentListeners, pastListeners, addedDate, now) ==
  IF pastListeners = 0 THEN Zero
  ELSE Mul(Div(Sub(Div(Num(currentListeners),
                       MathPow(Add(Num(1), spotifyGrowthRate), MonthsAgo(now, addedDate))),
                   Num(pastListeners)),
               Num(pastListeners)),
           Num(100))

calculateInflationAdjustedGrowth_ExtraMonth(currentListeners, pastListeners, addedDate, now) ==
  LET monthsAgo == MonthsAgo(now, addedDate) + 1
      platformInflation == MathPow(Add(Num(1), spotifyGrowthRate), monthsAgo)
      inflationAdjustedCurrent == Div(Num(currentListeners), platformInflation)
      rawGrowth ==
        Mul(Div(Sub(inflationAdjustedCurrent, Num(pastListeners)), Num(pastListeners)),
            Num(100))
  IN rawGrowth

calculateInflationAdjustedGrowth(currentListeners, pastListeners, addedDate, now) ==
  LET monthsAgo == MonthsAgo(now, addedDate)
      platformInflation == MathPow(Add(Num(1), spotifyGrowthRate), monthsAgo)
      inflationAdjustedCurrent == Div(Num(currentListeners), platformInflation)
      rawGrowth ==
        Mul(Div(Sub(inflationAdjustedCurrent, Num(pastListeners)), Num(pastListeners)),
            Num(100))
  IN rawGrowth

(* The tier ladder of calculateCloutScore: the multiplier, the tier and    *)
(* its colour (the emoji, a fourth cosmetic field set beside the colour,   *)
(* is left out).                                                           *)
Tier(mult, name, color) ==
  [earlyDiscoveryMultiplier |-> mult, discoveryTier |-> name, tierColor |-> color]

(* The ladder with earlyDiscoveryMultiplier and discoveryTier left          *)
(* uninitialised before it.                                                *)
discoveryTierOf_NoDefault(listenerAtAdd) ==
  IF listenerAtAdd < 100 THEN Tier(Num(20), "Bedroom Producer", "#FF10F0")
  ELSE IF listenerAtAdd < 500 THEN Tier(Num(15), "Soundcloud Rapper", "#FF6B35")
  ELSE IF listenerAtAdd < 1000 THEN Tier(Num(12), "Underground Legend", "#FFD700")
  ELSE IF listenerAtAdd < 5000 THEN Tier(Num(8), "Local Hero", "#FFA500")
  ELSE IF listenerAtAdd < 10000 THEN Tier(Num(6), "Early Adopter", "#9B59B6")
  ELSE IF listenerAtAdd < 50000 THEN Tier(Num(4), "Tastemaker", "#3498DB")
  ELSE IF listenerAtAdd < 100000 THEN Tier(Num(3), "Ahead of Curve", "#1ABC9C")
  ELSE IF listenerAtAdd < 500000 THEN Tier(Dec(25, -1), "Indie Enthusiast", "#16A085")
  ELSE IF listenerAtAdd < 1000000 THEN Tier(Num(2), "Rising Star Hunter", "#27AE60")
  ELSE IF listenerAtAdd < 5000000 THEN Tier(Dec(15, -1), "Trending Finder", "#2ECC71")
  ELSE IF listenerAtAdd < 10000000 THEN Tier(Dec(12, -1), "Popular Follower", "#BDC3C7")
  ELSE Tier(NaN, "undefined", "undefined")

(* The ladder with inclusive upper bounds. *)
discoveryTierOf_Inclusive(listenerAtAdd) ==
  IF listenerAtAdd <= 100 THEN Tier(Num(20), "Bedroom Producer", "#FF10F0")
  ELSE IF listenerAtAdd <= 500 THEN Tier(Num(15), "Soundcloud Rapper", "#FF6B35")
  ELSE IF listenerAtAdd <= 1000 THEN Tier(Num(12), "Underground Legend", "#FFD700")
  ELSE IF listenerAtAdd <= 5000 THEN Tier(Num(8), "Local Hero", "#FFA500")
  ELSE IF listenerAtAdd <= 10000 THEN Tier(Num(6), "Early Adopter", "#9B59B6")
  ELSE IF listenerAtAdd <= 50000 THEN Tier(Num(4), "Tastemaker", "#3498DB")
  ELSE IF listenerAtAdd <= 100000 THEN Tier(Num(3), "Ahead of Curve", "#1ABC9C")
  ELSE IF listenerAtAdd <= 500000 THEN Tier(Dec(25, -1), "Indie Enthusiast", "#16A085")
  ELSE IF listenerAtAdd <= 1000000 THEN Tier(Num(2), "Rising Star Hunter", "#27AE60")
  ELSE IF listenerAtAdd <= 5000000 THEN Tier(Dec(15, -1), "Trending Finder", "#2ECC71")
  ELSE IF listenerAtAdd <= 10000000 THEN Tier(Dec(12, -1), "Popular Follower", "#BDC3C7")
  ELSE Tier(Num(1), "Mainstream", "#95A5A6")

discoveryTierOf(listenerAtAdd) ==
  IF listenerAtAdd < 100 THEN Tier(Num(20), "Bedroom Producer", "#FF10F0")
  ELSE IF listenerAtAdd < 500 THEN Tier(Num(15), "Soundcloud Rapper", "#FF6B35")
  ELSE IF listenerAtAdd < 1000 THEN Tier(Num(12), "Underground Legend", "#FFD700")
  ELSE IF listenerAtAdd < 5000 THEN Tier(Num(8), "Local Hero", "#FFA500")
  ELSE IF listenerAtAdd < 10000 THEN Tier(Num(6), "Early Adopter", "#9B59B6")
  ELSE IF listenerAtAdd < 50000 THEN Tier(Num(4), "Tastemaker", "#3498DB")
  ELSE IF listenerAtAdd < 100000 THEN Tier(Num(3), "Ahead of Curve", "#1ABC9C")
  ELSE IF listenerAtAdd < 500000 THEN Tier(Dec(25, -1), "Indie Enthusiast", "#16A085")
  ELSE IF listenerAtAdd < 1000000 THEN Tier(Num(2), "Rising Star Hunter", "#27AE60")
  ELSE IF listenerAtAdd < 5000000 THEN Tier(Dec(15, -1), "Trending Finder", "#2ECC71")
  ELSE IF listenerAtAdd < 10000000 THEN Tier(Dec(12, -1), "Popular Follower", "#BDC3C7")
  ELSE Tier(Num(1), "Mainstream", "#95A5A6")

(* volumeWeight *)
volumeWeightOf(absoluteGrowth) == MathLog10(Abs(absoluteGrowth) + 1)

(* The base score of the module's earlier revision: floored at zero. *)
percentageScoreOf_Floored(inflationAdjustedGrowth) ==
  MathMax(Zero, inflationAdjustedGrowth)

(* percentageScore: the inflation-adjusted growth, with no floor. *)
percentageScoreOf(inflationAdjustedGrowth) == inflationAdjustedGrowth

(* The caps with inclusive bounds. *)
cappedMultiplierOf_Inclusive(earlyDiscoveryMultiplier, currentListeners) ==
  IF currentListeners <= 10000 THEN MathMin(earlyDiscoveryMultiplier, Num(2))
  ELSE IF currentListeners <= 50000 THEN MathMin(earlyDiscoveryMultiplier, Num(4))
  ELSE IF currentListeners <= 100000 THEN MathMin(earlyDiscoveryMultiplier, Num(6))
  ELSE earlyDiscoveryMultiplier

(* The caps as floors: Math.max in place of Math.min. *)
cappedMultiplierOf_Max(earlyDiscoveryMultiplier, currentListeners) ==
  IF currentListeners < 10000 THEN MathMax(earlyDiscoveryMultiplier, Num(2))
  ELSE IF currentListeners < 50000 THEN MathMax(earlyDiscoveryMultiplier, Num(4))
  ELSE IF currentListeners < 100000 THEN MathMax(earlyDiscoveryMultiplier, Num(6))
  ELSE earlyDiscoveryMultiplier

(* cappedMultiplier *)
cappedMultiplierOf(earlyDiscoveryMultiplier, currentListeners) ==
  IF currentListeners < 10000 THEN MathMin(earlyDiscoveryMultiplier, Num(2))
  ELSE IF currentListeners < 50000 THEN MathMin(earlyDiscoveryMultiplier, Num(4))
  ELSE IF currentListeners < 100000 THEN MathMin(earlyDiscoveryMultiplier, Num(6))
  ELSE earlyDiscoveryMultiplier

(* relevanceFactor *)
relevanceFactorOf_NoFloor(currentListeners) ==
  MathMin(Div(Add(MathLog10(currentListeners), Num(3)), Num(10)), Num(1))

relevanceFactorOf(currentListeners) ==
  MathMin(Div(Add(MathLog10(Max2(currentListeners, 1)), Num(3)), Num(10)), Num(1))

(* The product of the values as the returned object displays them. *)
finalScoreOf_Displayed(percentageScore, volumeWeight, cappedMultiplier, relevanceFactor) ==
  Mul(Mul(Mul(MathRound(percentageScore),
              Div(MathRound(Mul(volumeWeight, Num(100))), Num(100))),
          Div(MathRound(Mul(cappedMultiplier, Num(10))), Num(10))),
      Div(MathRound(Mul(relevanceFactor, Num(100))), Num(100)))

(* baseScore * relevanceFactor, from the unrounded intermediate values *)
finalScoreOf(percentageScore, volumeWeight, cappedMultiplier, relevanceFactor) ==
  LET baseScore == Mul(Mul(percentageScore, volumeWeight), cappedMultiplier)
  IN Mul(baseScore, relevanceFactor)

(* Math.round(x * 10^d) / 10^d *)
RoundTo(x, d) == Div(MathRound(Mul(x, Num(10^d))), Num(10^d))

(* The local variables of calculateCloutScore when it returns. *)
cloutScoreLocals(listenerAtAdd, currentListeners, addedDate, now) ==
  LET inflationAdjustedGrowth ==
        calculateInflationAdjustedGrowth(currentListeners, listenerAtAdd, addedDate, now)
      tier == discoveryTierOf(listenerAtAdd)
      absoluteGrowth == currentListeners - listenerAtAdd
      volumeWeight == volumeWeightOf(absoluteGrowth)
      percentageScore == percentageScoreOf(inflationAdjustedGrowth)
      cappedMultiplier ==
        cappedMultiplierOf(tier.earlyDiscoveryMultiplier, currentListeners)
      relevanceFactor == relevanceFactorOf(currentListeners)
  IN [inflationAdjustedGrowth |-> inflationAdjustedGrowth,
      tier |-> tier,
      absoluteGrowth |-> absoluteGrowth,
      volumeWeight |-> volumeWeight,
      percentageScore |-> percentageScore,
      cappedMultiplier |-> cappedMultiplier,
      baseScore |-> Mul(Mul(percentageScore, volumeWeight), cappedMultiplier),
      relevanceFactor |-> relevanceFactor,
      finalScore |->
        finalScoreOf(percentageScore, volumeWeight, cappedMultiplier, relevanceFactor)]

(* The object calculateCloutScore returns. *)
cloutScoreReturn(v, currentListeners, listenerAtAdd) ==
  [score |-> MathRound(v.finalScore),
   inflationAdjustedGrowth |-> MathRound(v.inflationAdjustedGrowth),
   rawGrowth |-> calculateGrowth(currentListeners, listenerAtAdd),
   absoluteGrowth |-> v.absoluteGrowth,
   volumeWeight |-> RoundTo(v.volumeWeight, 2),
   earlyDiscoveryMultiplier |-> v.tier.earlyDiscoveryMultiplier,
   cappedMultiplier |-> RoundTo(v.cappedMultiplier, 1),
   relevanceFactor |-> RoundTo(v.relevanceFactor, 2),
   discoveryTier |-> v.tier.discoveryTier,
   tierColor |-> v.tier.tierColor,
   listenersAtDiscovery |-> listenerAtAdd]

calculateCloutScore(listenerAtAdd, currentListeners, addedDate, now) ==
  cloutScoreReturn(cloutScoreLocals(listenerAtAdd, currentListeners, addedDate, now),
                   currentListeners, listenerAtAdd)

----------------------------------------------------------------------------
(* State *)

VARIABLES
  now,               \* the clock, in hours (in milliseconds in SpecLimit)
  input,             \* the arguments of a direct call of a scoring function
  fn,                \* the scoring function that was called on input, or "none"
  ret,               \* what it returned
  locals,            \* the local variables of calculateCloutScore when it returned
  isProcessing,      \* server.js: the processing lock
  spotifyInTimeout,  \* server.js: the timeout flag
  timeoutUntil,      \* server.js: when the timeout ends, or Null
  req,               \* the HTTP requests: where each handler stands and what it holds
  requestCounts,     \* server.js: the Map from an IP to the times of its accepted requests
  calls,             \* every call of checkRateLimit so far, per IP: when, and the answer
  artistCache,       \* server.js: the Map from an artist id to its cached data
  fetches            \* the requests to Spotify the running getCachedArtist has made

scoreVars == <<input, fn, ret, locals>>

rateVars == <<requestCounts, calls>>

cacheVars == <<artistCache, fetches>>

serverVars ==
  <<isProcessing, spotifyInTimeout, timeoutUntil, req, rateVars, cacheVars>>

vars ==
  <<now, input, fn, ret, locals, isProcessing, spotifyInTimeout, timeoutUntil, req,
    requestCounts, calls, artistCache, fetches>>

(* new Map() *)
EmptyMap == <<>>

(* let timeoutUntil = null *)
Null == -1

----------------------------------------------------------------------------
(* Direct calls of the scoring functions *)

(* How far around each threshold of the code the sampled arguments go. *)
Delta == 1

(* The largest number of elapsed months sampled besides 12; one month in   *)
(* the future is sampled too.                                              *)
MaxMonths == 2

Around(S) == {b + d : b \in S, d \in (-Delta)..Delta}

(* listenerAtAdd / pastListeners: the thresholds of the tier ladder. *)
ListenerSamples ==
  {0, 1} \cup Around({100, 500, 1000, 5000, 10000, 50000, 100000, 500000,
                      1000000, 5000000, 10000000})

(* currentListeners: the thresholds of the multiplier caps and of the      *)
(* relevance factor, and listeners lost or won.                            *)
CurrentSamples ==
  {0, 1, 940, 2000000} \cup Around({10000, 50000, 100000, 1000000, 10000000})

MonthSamples == ((-1)..MaxMonths) \cup {12}

ScoreInputs ==
  [listenerAtAdd : ListenerSamples, currentListeners : CurrentSamples,
   addedDate : {-(k * HoursPerMonth) : k \in MonthSamples}]

NoReturn == <<>>

InitScore ==
  /\ now = 0
  /\ input \in ScoreInputs
  /\ fn = "none"
  /\ ret = NoReturn
  /\ locals = NoReturn
  /\ isProcessing = FALSE
  /\ spotifyInTimeout = FALSE
  /\ timeoutUntil = Null
  /\ req = <<>>
  /\ requestCounts = EmptyMap
  /\ calls = EmptyMap
  /\ artistCache = EmptyMap
  /\ fetches = 0

Call_calculateCloutScore ==
  /\ fn = "none"
  /\ fn' = "calculateCloutScore"
  /\ ret' = calculateCloutScore(input.listenerAtAdd, input.currentListeners,
                                input.addedDate, now)
  /\ locals' = cloutScoreLocals(input.listenerAtAdd, input.currentListeners,
                                input.addedDate, now)
  /\ UNCHANGED <<now, input, serverVars>>

Call_estimateListenersAtDate ==
  /\ fn = "none"
  /\ fn' = "estimateListenersAtDate"
  /\ ret' = estimateListenersAtDate(input.currentListeners, input.addedDate, now)
  /\ UNCHANGED <<now, input, locals, serverVars>>

(* pastListeners is input.listenerAtAdd *)
Call_calculateGrowth ==
  /\ fn = "none"
  /\ fn' = "calculateGrowth"
  /\ ret' = calculateGrowth(input.currentListeners, input.listenerAtAdd)
  /\ UNCHANGED <<now, input, locals, serverVars>>

Call_calculateInflationAdjustedGrowth ==
  /\ fn = "none"
  /\ fn' = "calculateInflationAdjustedGrowth"
  /\ ret' = calculateInflationAdjustedGrowth(input.currentListeners,
                                             input.listenerAtAdd, input.addedDate, now)
  /\ UNCHANGED <<now, input, locals, serverVars>>

NextScore ==
  \/ Call_calculateCloutScore
  \/ Call_estimateListenersAtDate
  \/ Call_calculateGrowth
  \/ Call_calculateInflationAdjustedGrowth

SpecScore == InitScore /\ [][NextScore]_vars

----------------------------------------------------------------------------
(* server.js: the Spotify timeout *)

(* setSpotifyTimeout(hours = 24) *)
TimeoutHours == 24

isSpotifyInTimeout_Early(flag, until, t) ==
  IF ~flag
  THEN [result |-> FALSE, spotifyInTimeout |-> flag, timeoutUntil |-> until]
  ELSE IF until # Null /\ t >= until
  THEN [result |-> FALSE, spotifyInTimeout |-> FALSE, timeoutUntil |-> Null]
  ELSE [result |-> TRUE, spotifyInTimeout |-> flag, timeoutUntil |-> until]

(* isSpotifyInTimeout() at clock t: what it returns and the flags it       *)
(* leaves.                                                                 *)
isSpotifyInTimeout(flag, until, t) ==
  IF ~flag
  THEN [result |-> FALSE, spotifyInTimeout |-> flag, timeoutUntil |-> until]
  ELSE IF until # Null /\ t > until
  THEN [result |-> FALSE, spotifyInTimeout |-> FALSE, timeoutUntil |-> Null]
  ELSE [result |-> TRUE, spotifyInTimeout |-> flag, timeoutUntil |-> until]

(* setSpotifyTimeout(hours) at clock t: the flags it leaves. *)
setSpotifyTimeout(hours, t) ==
  [spotifyInTimeout |-> TRUE, timeoutUntil |-> t + hours]

----------------------------------------------------------------------------
(* server.js: what the two aggregation endpoints compute *)

(* res.status(status).json({error}) *)
Response(status, error) == [status |-> status, error |-> error, body |-> NoReturn]

NoResponse == Response(0, "none")

(* The element pushed on cloutData for the track at position idx of the    *)
(* list, whose artist has currentFollowers followers, at clock t.          *)
cloutEntry(idx, currentFollowers, addedAt, t) ==
  LET estimatedListenersWhenAdded ==
        estimateListenersAtDate(currentFollowers, addedAt, t)
      cloutMetrics ==
        calculateCloutScore(estimatedListenersWhenAdded, currentFollowers, addedAt, t)
  IN [track |-> idx,
      addedAt |-> addedAt,
      addedAgo |-> (5 * (t - addedAt)) \div 4,
      currentFollowers |-> currentFollowers,
      followersWhenAdded |-> estimatedListenersWhenAdded,
      rawGrowth |-> MathRound(cloutMetrics.rawGrowth),
      inflationAdjustedGrowth |-> cloutMetrics.inflationAdjustedGrowth,
      discoveryTier |-> cloutMetrics.discoveryTier,
      earlyDiscoveryBonus |-> cloutMetrics.earlyDiscoveryMultiplier,
      cloutScore |-> cloutMetrics.score]

(* cloutData.reduce((sum, item) => sum + item.cloutScore, 0) *)
RECURSIVE totalCloutOf(_)
totalCloutOf(cloutData) ==
  IF cloutData = <<>> THEN Zero
  ELSE Add(totalCloutOf(SubSeq(cloutData, 1, Len(cloutData) - 1)),
           cloutData[Len(cloutData)].cloutScore)

averageCloutOf(totalClout, length) == Div(totalClout, Num(length))

normalizedScoreOf_RoundedAverage(averageClout, length) ==
  Mul(MathRound(averageClout), MathSqrt(length))

normalizedScoreOf(averageClout, length) == Mul(averageClout, MathSqrt(length))

(* (a, b) => b.cloutScore - a.cloutScore *)
compareClout(a, b) == Sub(b.cloutScore, a.cloutScore)

(* One step of a stable sort: x, the next element, goes behind every       *)
(* element the comparator does not put after it; a NaN counts as 0.        *)
RECURSIVE insertByClout(_, _)
insertByClout(sorted, x) ==
  IF sorted = <<>> THEN <<x>>
  ELSE LET y == sorted[Len(sorted)]
           order == compareClout(y, x)
       IN IF order.k # "nan" /\ SignOf(order) > 0
          THEN Append(insertByClout(SubSeq(sorted, 1, Len(sorted) - 1), x), y)
          ELSE Append(sorted, x)

(* cloutData.sort((a, b) => b.cloutScore - a.cloutScore) *)
RECURSIVE sortByClout(_)
sortByClout(cloutData) ==
  IF cloutData = <<>> THEN <<>>
  ELSE insertByClout(sortByClout(SubSeq(cloutData, 1, Len(cloutData) - 1)),
                     cloutData[Len(cloutData)])

(* The totals and the res.json(...) that follow the loop over the tracks;  *)
(* the two endpoints have the same text.                                   *)
summaryOf(cloutData) ==
  LET totalClout == totalCloutOf(cloutData)
      averageClout == averageCloutOf(totalClout, Len(cloutData))
      normalizedScore == normalizedScoreOf(averageClout, Len(cloutData))
  IN [status |-> 200,
      error |-> "none",
      body |-> [averageClout |-> MathRound(averageClout),
                normalizedScore |-> MathRound(normalizedScore),
                totalClout |-> MathRound(totalClout),
                trackCount |-> Len(cloutData),
                tracks |-> sortByClout(cloutData)]]

----------------------------------------------------------------------------
(* server.js: the requests *)

(* The longest list of tracks a playlist or a request body holds. *)
MaxTracks == 2

(* How many times the clock advances. *)
MaxTicks == 2

(* One advance of the clock: a timeout set at some reading has not ended   *)
(* one advance later and has ended two advances later.                     *)
TickHours == (TimeoutHours \div 2) + 1

(* const rateLimitExpires: it lies one advance after the start of a server *)
(* that is started before it.                                              *)
rateLimitExpires == TickHours

(* What the items of a list of tracks look like: no track payload, no      *)
(* artists field, an empty artists list, a first artist without id, or all *)
(* of them present.                                                        *)
Malformed == {"noTrack", "noArtists", "emptyArtists", "noArtistId"}

(* The tracks that are scored: followers.total of the artist Spotify       *)
(* answers with, and how many months before the request the track was      *)
(* added to its list.                                                      *)
TrackSamples == {<<0, 1>>, <<1, 1>>, <<1000, 1>>, <<1000, 12>>, <<50000, 12>>}

(* Where several requests are under way at once, two of them are enough.   *)
TrackSamplesNow ==
  IF Cardinality(DOMAIN req) > 1 THEN {<<0, 1>>, <<1000, 1>>} ELSE TrackSamples

(* How a call of the Spotify Web API fails: by the status of the answer.   *)
FetchErrors == {"http401", "http404", "other"}

(* A request that has not been made yet.  Of a request that has, ep is the *)
(* endpoint, pc the await its handler is suspended at, n the length of the *)
(* list of tracks, i how many of them the loop has dealt with, last the    *)
(* shape of the latest of these, pastLoop whether the loop was left at its *)
(* end, and res the answer.                                                *)
NoRequest ==
  [ep |-> "none", pc |-> "idle", n |-> 0, i |-> 0, last |-> "none",
   cloutData |-> <<>>, pastLoop |-> FALSE, res |-> NoResponse]

(* A handler that has answered or not yet started leaves its place to the  *)
(* next request.                                                           *)
Free(r) == req[r].pc \in {"idle", "done"}

(* The handler of endpoint ep for r is suspended at pc. *)
At(r, ep, pc) == req[r].ep = ep /\ req[r].pc = pc

Answered(ep, res) == [NoRequest EXCEPT !.ep = ep, !.pc = "done", !.res = res]

(* The handler of r answers res and ends. *)
Answer(r, res) == req' = [req EXCEPT ![r].pc = "done", ![r].res = res]

Init ==
  /\ now = 0
  /\ input = NoReturn
  /\ fn = "none"
  /\ ret = NoReturn
  /\ locals = NoReturn
  /\ isProcessing = FALSE
  /\ \/ spotifyInTimeout = FALSE /\ timeoutUntil = Null
     \/ spotifyInTimeout = TRUE /\ timeoutUntil = rateLimitExpires
  /\ req = [r \in {1} |-> NoRequest]
  /\ requestCounts = EmptyMap
  /\ calls = EmptyMap
  /\ artistCache = EmptyMap
  /\ fetches = 0

(* Time passes. *)
Tick ==
  /\ now < MaxTicks * TickHours
  /\ now' = now + TickHours
  /\ UNCHANGED <<scoreVars, serverVars>>

----------------------------------------------------------------------------
(* POST /api/analyze-public-playlist *)

(* The flags are left as the isSpotifyInTimeout() of line 640 leaves them. *)
AnalyzeChecked(r) ==
  LET s == isSpotifyInTimeout(spotifyInTimeout, timeoutUntil, now)
  IN /\ Free(r)
     /\ ~s.result
     /\ spotifyInTimeout' = s.spotifyInTimeout
     /\ timeoutUntil' = s.timeoutUntil
     /\ UNCHANGED <<now, scoreVars, rateVars, cacheVars>>

AnalyzeRejectTimeout(r) ==
  /\ Free(r)
  /\ isSpotifyInTimeout(spotifyInTimeout, timeoutUntil, now).result
  /\ req' = [req EXCEPT ![r] = Answered("analyze", Response(503, "SPOTIFY_TIMEOUT"))]
  /\ UNCHANGED <<now, scoreVars, rateVars, cacheVars,
               isProcessing, spotifyInTimeout, timeoutUntil>>

AnalyzeRejectProcessing(r) ==
  /\ AnalyzeChecked(r)
  /\ isProcessing
  /\ req' = [req EXCEPT ![r] = Answered("analyze", Response(429, "PROCESSING"))]
  /\ UNCHANGED isProcessing

(* checkRateLimit(userIP) answers false. *)
AnalyzeRejectRateLimit(r) ==
  /\ AnalyzeChecked(r)
  /\ ~isProcessing
  /\ req' = [req EXCEPT ![r] = Answered("analyze", Response(429, "Too many requests"))]
  /\ UNCHANGED isProcessing

(* checkRateLimit(userIP) answers true and the body has no playlistId. *)
AnalyzeRejectNoPlaylistId(r) ==
  /\ AnalyzeChecked(r)
  /\ ~isProcessing
  /\ req' = [req EXCEPT ![r] = Answered("analyze", Response(400, "Playlist ID is required"))]
  /\ UNCHANGED isProcessing

AnalyzeAccept_FlagNotSet(r) ==
  /\ AnalyzeChecked(r)
  /\ ~isProcessing
  /\ UNCHANGED isProcessing
  /\ req' = [req EXCEPT ![r] = [NoRequest EXCEPT !.ep = "analyze", !.pc = "userToken"]]

(* checkRateLimit(userIP) answers true and the body has a playlistId. *)
AnalyzeAccept(r) ==
  /\ AnalyzeChecked(r)
  /\ ~isProcessing
  /\ isProcessing' = TRUE
  /\ req' = [req EXCEPT ![r] = [NoRequest EXCEPT !.ep = "analyze", !.pc = "userToken"]]

(* The catch of the handler: the answer to the error thrown. *)
analyzeCatch(error) ==
  IF error = "SPOTIFY_TIMEOUT" THEN Response(503, "SPOTIFY_TIMEOUT")
  ELSE IF error = "PRIVATE_PLAYLIST" THEN Response(404, "This playlist is private")
  ELSE IF error = "http404" THEN Response(404, "Playlist not found or is private")
  ELSE IF error = "http401" THEN Response(500, "Authentication error")
  ELSE Response(500, "Failed to analyze playlist")

AnalyzeThrow_NoFinally(r, error) ==
  /\ Answer(r, analyzeCatch(error))
  /\ UNCHANGED isProcessing

(* An await of the handler throws: the catch answers and the finally       *)
(* releases the lock.                                                      *)
AnalyzeThrow(r, error) ==
  /\ Answer(r, analyzeCatch(error))
  /\ isProcessing' = FALSE

(* await getUserAccessToken() *)
AnalyzeUserToken(r) ==
  /\ At(r, "analyze", "userToken")
  /\ \/ req' = [req EXCEPT ![r].pc = "playlist"] /\ UNCHANGED isProcessing
     \/ \E error \in FetchErrors : AnalyzeThrow(r, error)
  /\ UNCHANGED <<now, scoreVars, rateVars, cacheVars, spotifyInTimeout, timeoutUntil>>

(* await axios.get(playlistUrl).catch(...) *)
AnalyzePlaylist(r) ==
  /\ At(r, "analyze", "playlist")
  /\ \/ req' = [req EXCEPT ![r].pc = "tracks"] /\ UNCHANGED isProcessing
     \/ \E error \in FetchErrors :
          AnalyzeThrow(r, IF error = "http404" THEN "PRIVATE_PLAYLIST" ELSE error)
  /\ UNCHANGED <<now, scoreVars, rateVars, cacheVars, spotifyInTimeout, timeoutUntil>>

(* The pages of the tracks, until there is no next page: allTracks has n   *)
(* items.                                                                  *)
AnalyzeTracks(r) ==
  /\ At(r, "analyze", "tracks")
  /\ \/ \E n \in 0..MaxTracks :
          /\ req' = [req EXCEPT ![r].pc = "clientToken", ![r].n = n]
          /\ UNCHANGED isProcessing
     \/ \E error \in FetchErrors : AnalyzeThrow(r, error)
  /\ UNCHANGED <<now, scoreVars, rateVars, cacheVars, spotifyInTimeout, timeoutUntil>>

(* What follows the loop over allTracks at clock t: the answer, and the    *)
(* flags as the isSpotifyInTimeout() of line 798 leaves them.              *)
analyzeAfterLoop(cloutData, flag, until, t) ==
  LET s == isSpotifyInTimeout(flag, until, t)
  IN IF Len(cloutData) = 0
     THEN [res |-> IF s.result
                   THEN Response(503, "SPOTIFY_TIMEOUT")
                   ELSE Response(400, "No valid tracks found in playlist"),
           spotifyInTimeout |-> s.spotifyInTimeout,
           timeoutUntil |-> s.timeoutUntil]
     ELSE [res |-> summaryOf(cloutData),
           spotifyInTimeout |-> flag,
           timeoutUntil |-> until]

(* The loop has dealt with one more item, of the given shape, and holds    *)
(* cloutData; flag and until are the timeout the item left.  After the     *)
(* last item the handler answers and the finally releases the lock.        *)
AnalyzeItemDone(r, shape, cloutData, flag, until) ==
  LET i == req[r].i + 1
      after == analyzeAfterLoop(cloutData, flag, until, now)
  IN IF i < req[r].n
     THEN /\ req' = [req EXCEPT ![r].i = i, ![r].last = shape,
                                ![r].cloutData = cloutData]
          /\ spotifyInTimeout' = flag
          /\ timeoutUntil' = until
          /\ UNCHANGED isProcessing
     ELSE /\ req' = [req EXCEPT ![r].i = i, ![r].last = shape,
                                ![r].cloutData = cloutData, ![r].pastLoop = TRUE,
                                ![r].pc = "done", ![r].res = after.res]
          /\ spotifyInTimeout' = after.spotifyInTimeout
          /\ timeoutUntil' = after.timeoutUntil
          /\ isProcessing' = FALSE

(* await getSpotifyToken(); an empty allTracks goes past the loop. *)
AnalyzeClientToken(r) ==
  /\ At(r, "analyze", "clientToken")
  /\ \/ /\ req[r].n > 0
        /\ req' = [req EXCEPT ![r].pc = "loop"]
        /\ UNCHANGED <<isProcessing, spotifyInTimeout, timeoutUntil>>
     \/ /\ req[r].n = 0
        /\ LET after == analyzeAfterLoop(<<>>, spotifyInTimeout, timeoutUntil, now)
           IN /\ req' = [req EXCEPT ![r].pc = "done", ![r].pastLoop = TRUE,
                                     ![r].res = after.res]
              /\ spotifyInTimeout' = after.spotifyInTimeout
              /\ timeoutUntil' = after.timeoutUntil
        /\ isProcessing' = FALSE
     \/ /\ \E error \in FetchErrors : AnalyzeThrow(r, error)
        /\ UNCHANGED <<spotifyInTimeout, timeoutUntil>>
  /\ UNCHANGED <<now, scoreVars, rateVars, cacheVars>>

(* The next item has no track, no artists, or a first artist without id:   *)
(* continue.                                                               *)
AnalyzeSkipTrack(r) ==
  /\ At(r, "analyze", "loop")
  /\ \E shape \in Malformed :
       AnalyzeItemDone(r, shape, req[r].cloutData, spotifyInTimeout, timeoutUntil)
  /\ UNCHANGED <<now, scoreVars, rateVars, cacheVars>>

(* getCachedArtist answers with the artist, from the cache or from         *)
(* Spotify: the item is scored and pushed.                                 *)
AnalyzeScoreTrack(r) ==
  /\ At(r, "analyze", "loop")
  /\ \E sample \in TrackSamplesNow :
       AnalyzeItemDone(r, "ok",
                       Append(req[r].cloutData,
                              cloutEntry(req[r].i + 1, sample[1],
                                         now - sample[2] * HoursPerMonth, now)),
                       spotifyInTimeout, timeoutUntil)
  /\ UNCHANGED <<now, scoreVars, rateVars, cacheVars>>

AnalyzeTrackFailed_Abort(r) ==
  /\ At(r, "analyze", "loop")
  /\ AnalyzeThrow(r, "other")
  /\ UNCHANGED <<now, scoreVars, rateVars, cacheVars, spotifyInTimeout, timeoutUntil>>

(* getCachedArtist throws, its retries spent or the answer no 429: the     *)
(* inner catch continues.                                                  *)
AnalyzeTrackFailed(r) ==
  /\ At(r, "analyze", "loop")
  /\ AnalyzeItemDone(r, "ok", req[r].cloutData, spotifyInTimeout, timeoutUntil)
  /\ UNCHANGED <<now, scoreVars, rateVars, cacheVars>>

(* getCachedArtist is told to retry after more than an hour: it sets the   *)
(* timeout and throws SPOTIFY_TIMEOUT, and the inner catch continues.      *)
AnalyzeTrackTimeout(r) ==
  /\ At(r, "analyze", "loop")
  /\ LET s == setSpotifyTimeout(TimeoutHours, now)
     IN AnalyzeItemDone(r, "ok", req[r].cloutData, s.spotifyInTimeout, s.timeoutUntil)
  /\ UNCHANGED <<now, scoreVars, rateVars, cacheVars>>

----------------------------------------------------------------------------
(* POST /api/calculate-clout *)

(* The body has no array of tracks. *)
CloutRejectInvalid(r) ==
  /\ Free(r)
  /\ req' = [req EXCEPT ![r] = Answered("clout", Response(400, "Invalid tracks data"))]
  /\ UNCHANGED <<now, scoreVars, rateVars, cacheVars,
               isProcessing, spotifyInTimeout, timeoutUntil>>

(* The body has an array of n tracks. *)
CloutAccept(r) ==
  /\ Free(r)
  /\ \E n \in 0..MaxTracks :
       req' = [req EXCEPT ![r] = [NoRequest EXCEPT !.ep = "clout", !.pc = "token",
                                                   !.n = n]]
  /\ UNCHANGED <<now, scoreVars, rateVars, cacheVars,
               isProcessing, spotifyInTimeout, timeoutUntil>>

(* The catch of the handler. *)
CloutThrow(r, shape) ==
  req' = [req EXCEPT ![r].pc = "done", ![r].last = shape,
                     ![r].i = IF shape = "none" THEN @ ELSE @ + 1,
                     ![r].res = Response(500, "Failed to calculate clout score")]

(* The loop has dealt with one more item; after the last one the handler   *)
(* answers with the totals.                                                *)
CloutItemDone(r, shape, cloutData) ==
  LET i == req[r].i + 1
  IN IF i < req[r].n
     THEN req' = [req EXCEPT ![r].i = i, ![r].last = shape,
                             ![r].cloutData = cloutData]
     ELSE req' = [req EXCEPT ![r].i = i, ![r].last = shape,
                             ![r].cloutData = cloutData, ![r].pastLoop = TRUE,
                             ![r].pc = "done", ![r].res = summaryOf(cloutData)]

(* await getSpotifyToken(); an empty array goes past the loop. *)
CloutToken(r) ==
  /\ At(r, "clout", "token")
  /\ \/ req[r].n > 0 /\ req' = [req EXCEPT ![r].pc = "loop"]
     \/ /\ req[r].n = 0
        /\ req' = [req EXCEPT ![r].pc = "done", ![r].pastLoop = TRUE,
                               ![r].res = summaryOf(<<>>)]
     \/ CloutThrow(r, "none")
  /\ UNCHANGED <<now, scoreVars, rateVars, cacheVars,
               isProcessing, spotifyInTimeout, timeoutUntil>>

(* !track.track || !track.track.artists: continue. *)
CloutSkipTrack(r) ==
  /\ At(r, "clout", "loop")
  /\ \E shape \in {"noTrack", "noArtists"} : CloutItemDone(r, shape, req[r].cloutData)
  /\ UNCHANGED <<now, scoreVars, rateVars, cacheVars,
               isProcessing, spotifyInTimeout, timeoutUntil>>

(* track.track.artists is empty: artists[0] is undefined and artist.id     *)
(* throws a TypeError.                                                     *)
CloutNoArtist(r) ==
  /\ At(r, "clout", "loop")
  /\ CloutThrow(r, "emptyArtists")
  /\ UNCHANGED <<now, scoreVars, rateVars, cacheVars,
               isProcessing, spotifyInTimeout, timeoutUntil>>

(* getCachedArtist answers with the artist: the item is scored and pushed. *)
CloutScoreTrack(r) ==
  /\ At(r, "clout", "loop")
  /\ \E sample \in TrackSamplesNow :
       CloutItemDone(r, "ok",
                     Append(req[r].cloutData,
                            cloutEntry(req[r].i + 1, sample[1],
                                       now - sample[2] * HoursPerMonth, now)))
  /\ UNCHANGED <<now, scoreVars, rateVars, cacheVars,
               isProcessing, spotifyInTimeout, timeoutUntil>>

(* getCachedArtist throws; Spotify knows no artist of id undefined. *)
CloutTrackFailed(r) ==
  /\ At(r, "clout", "loop")
  /\ \E shape \in {"ok", "noArtistId"} : CloutThrow(r, shape)
  /\ UNCHANGED <<now, scoreVars, rateVars, cacheVars,
               isProcessing, spotifyInTimeout, timeoutUntil>>

(* getCachedArtist sets the timeout and throws SPOTIFY_TIMEOUT. *)
CloutTrackTimeout(r) ==
  /\ At(r, "clout", "loop")
  /\ \E shape \in {"ok", "noArtistId"} : CloutThrow(r, shape)
  /\ LET s == setSpotifyTimeout(TimeoutHours, now)
     IN /\ spotifyInTimeout' = s.spotifyInTimeout
        /\ timeoutUntil' = s.timeoutUntil
  /\ UNCHANGED <<now, scoreVars, rateVars, cacheVars, isProcessing>>

----------------------------------------------------------------------------
(* One client at a time calls the two aggregation endpoints *)

Next ==
  \/ Tick
  \/ \E r \in DOMAIN req : AnalyzeRejectTimeout(r)
  \/ \E r \in DOMAIN req : AnalyzeRejectRateLimit(r)
  \/ \E r \in DOMAIN req : AnalyzeRejectNoPlaylistId(r)
  \/ \E r \in DOMAIN req : AnalyzeAccept(r)
  \/ \E r \in DOMAIN req : AnalyzeUserToken(r)
  \/ \E r \in DOMAIN req : AnalyzePlaylist(r)
  \/ \E r \in DOMAIN req : AnalyzeTracks(r)
  \/ \E r \in DOMAIN req : AnalyzeClientToken(r)
  \/ \E r \in DOMAIN req : AnalyzeSkipTrack(r)
  \/ \E r \in DOMAIN req : AnalyzeScoreTrack(r)
  \/ \E r \in DOMAIN req : AnalyzeTrackFailed(r)
  \/ \E r \in DOMAIN req : AnalyzeTrackTimeout(r)
  \/ \E r \in DOMAIN req : CloutRejectInvalid(r)
  \/ \E r \in DOMAIN req : CloutAccept(r)
  \/ \E r \in DOMAIN req : CloutToken(r)
  \/ \E r \in DOMAIN req : CloutSkipTrack(r)
  \/ \E r \in DOMAIN req : CloutNoArtist(r)
  \/ \E r \in DOMAIN req : CloutScoreTrack(r)
  \/ \E r \in DOMAIN req : CloutTrackFailed(r)
  \/ \E r \in DOMAIN req : CloutTrackTimeout(r)

Spec == Init /\ [][Next]_vars

----------------------------------------------------------------------------
(* Two clients call POST /api/analyze-public-playlist concurrently *)

InitLock ==
  /\ now = 0
  /\ input = NoReturn
  /\ fn = "none"
  /\ ret = NoReturn
  /\ locals = NoReturn
  /\ isProcessing = FALSE
  /\ spotifyInTimeout = FALSE
  /\ timeoutUntil = Null
  /\ req = [r \in {1, 2} |-> NoRequest]
  /\ requestCounts = EmptyMap
  /\ calls = EmptyMap
  /\ artistCache = EmptyMap
  /\ fetches = 0

NextLock ==
  \/ \E r \in DOMAIN req : AnalyzeRejectTimeout(r)
  \/ \E r \in DOMAIN req : AnalyzeRejectProcessing(r)
  \/ \E r \in DOMAIN req : AnalyzeRejectRateLimit(r)
  \/ \E r \in DOMAIN req : AnalyzeRejectNoPlaylistId(r)
  \/ \E r \in DOMAIN req : AnalyzeAccept(r)
  \/ \E r \in DOMAIN req : AnalyzeUserToken(r)
  \/ \E r \in DOMAIN req : AnalyzePlaylist(r)
  \/ \E r \in DOMAIN req : AnalyzeTracks(r)
  \/ \E r \in DOMAIN req : AnalyzeClientToken(r)
  \/ \E r \in DOMAIN req : AnalyzeSkipTrack(r)
  \/ \E r \in DOMAIN req : AnalyzeScoreTrack(r)
  \/ \E r \in DOMAIN req : AnalyzeTrackFailed(r)
  \/ \E r \in DOMAIN req : AnalyzeTrackTimeout(r)

SpecLock == InitLock /\ [][NextLock]_vars

----------------------------------------------------------------------------
(* The same call of a scoring function made again, later *)

(* A month passes after a call of one of the functions that read the       *)
(* clock (const now = new Date()).                                         *)
TickMonth ==
  /\ fn \in {"calculateCloutScore", "estimateListenersAtDate"}
  /\ now < MaxTicks * HoursPerMonth
  /\ now' = now + HoursPerMonth
  /\ UNCHANGED <<scoreVars, serverVars>>

(* calculateCloutScore is called again with the same arguments. *)
Recall_calculateCloutScore ==
  /\ fn = "calculateCloutScore"
  /\ ret' = calculateCloutScore(input.listenerAtAdd, input.currentListeners,
                                input.addedDate, now)
  /\ locals' = cloutScoreLocals(input.listenerAtAdd, input.currentListeners,
                                input.addedDate, now)
  /\ UNCHANGED <<now, input, fn, serverVars>>

(* estimateListenersAtDate is called again with the same arguments. *)
Recall_estimateListenersAtDate ==
  /\ fn = "estimateListenersAtDate"
  /\ ret' = estimateListenersAtDate(input.currentListeners, input.addedDate, now)
  /\ UNCHANGED <<now, input, fn, locals, serverVars>>

NextTwice ==
  \/ NextScore
  \/ TickMonth
  \/ Recall_calculateCloutScore
  \/ Recall_estimateListenersAtDate

SpecTwice == InitScore /\ [][NextTwice]_vars

----------------------------------------------------------------------------
(* The rate limiter of server.js.  Date.now() counts milliseconds, and so  *)
(* does the clock of SpecLimit.                                            *)

RATE_LIMIT_WINDOW == 60 * 1000

MAX_REQUESTS_PER_MINUTE == 10

(* setInterval(..., 5 * 60 * 1000) *)
CleanupEvery == 5 * 60 * 1000

(* The first caller calls checkRateLimit at most MaxCalls times, the       *)
(* second at most MaxOtherCalls times, and the clock makes MaxSteps steps  *)
(* of half a window each.                                                  *)
MaxCalls == 12

MaxOtherCalls == 1

MaxSteps == 2

StepMs == RATE_LIMIT_WINDOW \div 2

IPs == {"10.0.0.1", "10.0.0.2"}

CallsAllowed(ip) == IF ip = "10.0.0.1" THEN MaxCalls ELSE MaxOtherCalls

(* map.get(key) || [] *)
getOrEmpty(map, key) == IF key \in DOMAIN map THEN map[key] ELSE <<>>

(* map.set(key, value) *)
mapSet(map, key, value) ==
  [k \in DOMAIN map \cup {key} |-> IF k = key THEN value ELSE map[k]]

(* requests.filter(time => now - time < RATE_LIMIT_WINDOW) *)
recentRequests(requests, t) ==
  SelectSeq(requests, LAMBDA time : t - time < RATE_LIMIT_WINDOW)

checkRateLimit_Eleven(counts, ip, t) ==
  LET recent == recentRequests(getOrEmpty(counts, ip), t)
  IN  IF Len(recent) > MAX_REQUESTS_PER_MINUTE
      THEN [result |-> FALSE, requestCounts |-> counts]
      ELSE [result |-> TRUE, requestCounts |-> mapSet(counts, ip, Append(recent, t))]

(* checkRateLimit(ip) at time t: the answer, and the Map afterwards. *)
checkRateLimit(counts, ip, t) ==
  LET recent == recentRequests(getOrEmpty(counts, ip), t)
  IN  IF Len(recent) >= MAX_REQUESTS_PER_MINUTE
      THEN [result |-> FALSE, requestCounts |-> counts]
      ELSE [result |-> TRUE, requestCounts |-> mapSet(counts, ip, Append(recent, t))]

(* The body of the cleanup interval: every list is filtered, and an IP     *)
(* whose list becomes empty is deleted.                                    *)
cleanupRequestCounts(counts, t) ==
  LET kept == {ip \in DOMAIN counts : recentRequests(counts[ip], t) # <<>>}
  IN  [ip \in kept |-> recentRequests(counts[ip], t)]

(* The server has been up for a while and has no request on record; the    *)
(* cleanup interval comes due two clock steps later.                       *)
InitLimit ==
  /\ now = CleanupEvery - 2 * StepMs
  /\ input = NoReturn
  /\ fn = "none"
  /\ ret = NoReturn
  /\ locals = NoReturn
  /\ isProcessing = FALSE
  /\ spotifyInTimeout = FALSE
  /\ timeoutUntil = Null
  /\ req = <<>>
  /\ requestCounts = EmptyMap
  /\ calls = EmptyMap
  /\ artistCache = EmptyMap
  /\ fetches = 0

(* A request of ip reaches checkRateLimit. *)
CheckRateLimit(ip) ==
  /\ Len(getOrEmpty(calls, ip)) < CallsAllowed(ip)
  /\ LET answer == checkRateLimit(requestCounts, ip, now)
     IN  /\ requestCounts' = answer.requestCounts
         /\ ret' = answer.result
         /\ calls' = mapSet(calls, ip,
                            Append(getOrEmpty(calls, ip),
                                   [time |-> now, allowed |-> answer.result]))
  /\ fn' = "checkRateLimit"
  /\ input' = [ip |-> ip]
  /\ UNCHANGED <<now, locals, isProcessing, spotifyInTimeout, timeoutUntil, req,
                 cacheVars>>

(* The cleanup interval fires. *)
Cleanup ==
  /\ now % CleanupEvery = 0
  /\ requestCounts' = cleanupRequestCounts(requestCounts, now)
  /\ UNCHANGED <<now, scoreVars, isProcessing, spotifyInTimeout, timeoutUntil, req,
                 calls, cacheVars>>

(* Half a window passes. *)
TickLimit ==
  /\ now < CleanupEvery - 2 * StepMs + MaxSteps * StepMs
  /\ now' = now + StepMs
  /\ UNCHANGED <<scoreVars, serverVars>>

NextLimit ==
  \/ \E ip \in IPs : CheckRateLimit(ip)
  \/ Cleanup
  \/ TickLimit

SpecLimit == InitLimit /\ [][NextLimit]_vars

----------------------------------------------------------------------------
(* getCachedArtist of server.js, step by step, with the clock counted in   *)
(* hours.                                                                  *)

(* 60 * 60 * 1000 ms: one hour *)
ARTIST_CACHE_TTL == 1

maxRetries == 3

(* A string is the sequence of its characters. *)
DigitChars == <<"0", "1", "2", "3", "4", "5", "6", "7", "8", "9">>

IsDigit(c) == \E d \in 1..10 : DigitChars[d] = c

DigitOf(c) == (CHOOSE d \in 1..10 : DigitChars[d] = c) - 1

(* The value of the digits of s from position i on, up to the first        *)
(* character that is not a digit; acc is the value read so far.            *)
RECURSIVE DigitsValue(_, _, _)
DigitsValue(s, i, acc) ==
  IF i > Len(s) \/ ~IsDigit(s[i]) THEN acc
  ELSE DigitsValue(s, i + 1, 10 * acc + DigitOf(s[i]))

RECURSIVE SkipSpaces(_, _)
SkipSpaces(s, i) ==
  IF i <= Len(s) /\ s[i] = " " THEN SkipSpaces(s, i + 1) ELSE i

(* parseInt(s) of a string in decimal notation: leading white space and a  *)
(* sign are skipped, the digits are read up to the first other character,  *)
(* and the result is NaN when there is no digit to read.                   *)
parseInt(s) ==
  LET i == SkipSpaces(s, 1)
      signed == i <= Len(s) /\ s[i] \in {"+", "-"}
      j == IF signed THEN i + 1 ELSE i
  IN  IF j > Len(s) \/ ~IsDigit(s[j]) THEN NaN
      ELSE IF signed /\ s[i] = "-" THEN Neg(Num(DigitsValue(s, j, 0)))
      ELSE Num(DigitsValue(s, j, 0))

(* error.response.headers['retry-after']: undefined, or a string *)
NoHeader == [present |-> FALSE, value |-> <<>>]

Header(s) == [present |-> TRUE, value |-> s]

RetryAfterHeaders ==
  {NoHeader, Header(<<"1">>), Header(<<"5">>), Header(<<"6">>),
   Header(<<"3", "6", "0", "0">>), Header(<<"3", "6", "0", "1">>),
   Header(<<"W", "e", "d">>)}

(* parseInt(error.response.headers['retry-after'] || '2') *)
retryAfterOf(header) ==
  parseInt(IF header.present /\ header.value # <<>> THEN header.value ELSE <<"2">>)

(* Math.min(retryAfter * 1000, 5000) *)
waitTimeOf(retryAfter) == MathMin(Mul(retryAfter, Num(1000)), Num(5000))

(* The error axios.get throws: the status of the response (0 when there is *)
(* none) and its retry-after header.                                       *)
HttpError(status, header) == [status |-> status, retryAfter |-> header]

NoError == HttpError(200, NoHeader)

OtherErrors == {HttpError(s, NoHeader) : s \in {0, 401, 404, 500}}

(* throw new Error(message), and throw error *)
Thrown(error) == [thrown |-> error]

ArtistIds == {"artist1", "artist2"}

(* response.data: the followers of the artist *)
ArtistData == {1000, 50000}

(* The local variables of a call of getCachedArtist: pc is "try" before    *)
(* axios.get, "backoff" in the wait of the catch, and "returned" or        *)
(* "thrown" when the call is over.                                         *)
FetchLocals(pc, retries, error, waitTime) ==
  [pc |-> pc, retries |-> retries, error |-> error, waitTime |-> waitTime]

FetchRunning == fn = "getCachedArtist" /\ locals.pc \in {"try", "backoff"}

FetchAt(pc) == fn = "getCachedArtist" /\ locals.pc = pc

InitFetch ==
  /\ now = 0
  /\ input = NoReturn
  /\ fn = "none"
  /\ ret = NoReturn
  /\ locals = NoReturn
  /\ isProcessing = FALSE
  /\ spotifyInTimeout = FALSE
  /\ timeoutUntil = Null
  /\ req = <<>>
  /\ requestCounts = EmptyMap
  /\ calls = EmptyMap
  /\ artistCache = EmptyMap
  /\ fetches = 0

GetCachedArtist_Stale(artistId) ==
  /\ ~FetchRunning
  /\ fn' = "getCachedArtist"
  /\ input' = [artistId |-> artistId]
  /\ fetches' = 0
  /\ IF /\ artistId \in DOMAIN artistCache
        /\ now - artistCache[artistId].timestamp <= ARTIST_CACHE_TTL
     THEN /\ locals' = FetchLocals("returned", 0, NoError, Zero)
          /\ ret' = artistCache[artistId].data
     ELSE /\ locals' = FetchLocals("try", 0, NoError, Zero)
          /\ ret' = NoReturn
  /\ UNCHANGED <<now, isProcessing, spotifyInTimeout, timeoutUntil, req, rateVars,
                 artistCache>>

(* getCachedArtist(artistId, token) is called: a fresh entry of the cache  *)
(* is returned, otherwise the loop is entered with retries = 0.            *)
GetCachedArtist(artistId) ==
  /\ ~FetchRunning
  /\ fn' = "getCachedArtist"
  /\ input' = [artistId |-> artistId]
  /\ fetches' = 0
  /\ IF /\ artistId \in DOMAIN artistCache
        /\ now - artistCache[artistId].timestamp < ARTIST_CACHE_TTL
     THEN /\ locals' = FetchLocals("returned", 0, NoError, Zero)
          /\ ret' = artistCache[artistId].data
     ELSE /\ locals' = FetchLocals("try", 0, NoError, Zero)
          /\ ret' = NoReturn
  /\ UNCHANGED <<now, isProcessing, spotifyInTimeout, timeoutUntil, req, rateVars,
                 artistCache>>

(* axios.get answers: the data is cached and returned. *)
FetchOk(data) ==
  /\ FetchAt("try")
  /\ fetches' = fetches + 1
  /\ artistCache' = mapSet(artistCache, input.artistId,
                           [data |-> data, timestamp |-> now])
  /\ locals' = [locals EXCEPT !.pc = "returned"]
  /\ ret' = data
  /\ UNCHANGED <<now, input, fn, isProcessing, spotifyInTimeout, timeoutUntil, req,
                 rateVars>>

(* axios.get throws with status 429: over an hour of retry-after sets the  *)
(* timeout and throws, anything else waits waitTime before the next turn   *)
(* of the loop.                                                            *)
FetchRateLimited(header) ==
  /\ FetchAt("try")
  /\ fetches' = fetches + 1
  /\ LET retryAfter == retryAfterOf(header)
         waitTime == waitTimeOf(retryAfter)
         error == HttpError(429, header)
     IN  IF Less(Num(3600), retryAfter)
         THEN /\ spotifyInTimeout' = setSpotifyTimeout(TimeoutHours, now).spotifyInTimeout
              /\ timeoutUntil' = setSpotifyTimeout(TimeoutHours, now).timeoutUntil
              /\ locals' = [locals EXCEPT !.pc = "thrown", !.error = error,
                                          !.waitTime = waitTime]
              /\ ret' = Thrown("SPOTIFY_TIMEOUT")
         ELSE IF Less(Num(5000), waitTime)
         THEN /\ locals' = [locals EXCEPT !.pc = "thrown", !.error = error,
                                          !.waitTime = waitTime]
              /\ ret' = Thrown("Rate limit exceeded - try again later")
              /\ UNCHANGED <<spotifyInTimeout, timeoutUntil>>
         ELSE /\ locals' = [locals EXCEPT !.pc = "backoff", !.error = error,
                                          !.waitTime = waitTime]
              /\ ret' = NoReturn
              /\ UNCHANGED <<spotifyInTimeout, timeoutUntil>>
  /\ UNCHANGED <<now, input, fn, isProcessing, req, rateVars, artistCache>>

(* axios.get throws anything else: the error is thrown on. *)
FetchFailed(error) ==
  /\ FetchAt("try")
  /\ fetches' = fetches + 1
  /\ locals' = [locals EXCEPT !.pc = "thrown", !.error = error]
  /\ ret' = Thrown(error)
  /\ UNCHANGED <<now, input, fn, isProcessing, spotifyInTimeout, timeoutUntil, req,
                 rateVars, artistCache>>

(* The wait is over: retries++, and the test of the loop. *)
FetchBackoff ==
  /\ FetchAt("backoff")
  /\ IF locals.retries + 1 < maxRetries
     THEN /\ locals' = [locals EXCEPT !.pc = "try", !.retries = locals.retries + 1]
          /\ ret' = NoReturn
     ELSE /\ locals' = [locals EXCEPT !.pc = "thrown", !.retries = locals.retries + 1]
          /\ ret' = Thrown("Max retries exceeded for artist fetch")
  /\ UNCHANGED <<now, input, fn, serverVars>>

(* An hour passes. *)
TickFetch ==
  /\ now < MaxTicks * ARTIST_CACHE_TTL
  /\ now' = now + ARTIST_CACHE_TTL
  /\ UNCHANGED <<scoreVars, serverVars>>

NextFetch ==
  \/ \E artistId \in ArtistIds : GetCachedArtist(artistId)
  \/ \E data \in ArtistData : FetchOk(data)
  \/ \E header \in RetryAfterHeaders : FetchRateLimited(header)
  \/ \E error \in OtherErrors : FetchFailed(error)
  \/ FetchBackoff
  \/ TickFetch

SpecFetch == InitFetch /\ [][NextFetch]_vars

----------------------------------------------------------------------------
(* The admission of POST /api/analyze-public-playlist with the rate        *)
(* limiter of the code, with the clock counted in hours.                   *)

MsPerHour == 60 * 60 * 1000

(* Date.now() at clock t *)
DateNow(t) == t * MsPerHour

analyzeEntry_LimitFirst(ip, hasPlaylistId, flag, until, processing, counts, t) ==
  LET s == isSpotifyInTimeout(flag, until, t)
      limit == checkRateLimit(counts, ip, DateNow(t))
      rejected(status, error, newCounts) ==
        [req |-> Answered("analyze", Response(status, error)),
         isProcessing |-> processing,
         spotifyInTimeout |-> s.spotifyInTimeout,
         timeoutUntil |-> s.timeoutUntil,
         requestCounts |-> newCounts]
  IN  IF s.result THEN rejected(503, "SPOTIFY_TIMEOUT", limit.requestCounts)
      ELSE IF processing THEN rejected(429, "PROCESSING", limit.requestCounts)
      ELSE IF ~limit.result
      THEN rejected(429, "Too many requests", limit.requestCounts)
      ELSE IF ~hasPlaylistId
      THEN rejected(400, "Playlist ID is required", limit.requestCounts)
      ELSE [req |-> [NoRequest EXCEPT !.ep = "analyze", !.pc = "userToken"],
            isProcessing |-> TRUE,
            spotifyInTimeout |-> s.spotifyInTimeout,
            timeoutUntil |-> s.timeoutUntil,
            requestCounts |-> limit.requestCounts]

(* The handler from its first line to its first await (633-671), for a     *)
(* request of ip whose body has a playlistId or has none: the answer, or   *)
(* the await it stops at, and the state it leaves.                         *)
analyzeEntry(ip, hasPlaylistId, flag, until, processing, counts, t) ==
  LET s == isSpotifyInTimeout(flag, until, t)
      limit == checkRateLimit(counts, ip, DateNow(t))
      rejected(status, error, newCounts) ==
        [req |-> Answered("analyze", Response(status, error)),
         isProcessing |-> processing,
         spotifyInTimeout |-> s.spotifyInTimeout,
         timeoutUntil |-> s.timeoutUntil,
         requestCounts |-> newCounts]
  IN  IF s.result THEN rejected(503, "SPOTIFY_TIMEOUT", counts)
      ELSE IF processing THEN rejected(429, "PROCESSING", counts)
      ELSE IF ~limit.result
      THEN rejected(429, "Too many requests", limit.requestCounts)
      ELSE IF ~hasPlaylistId
      THEN rejected(400, "Playlist ID is required", limit.requestCounts)
      ELSE [req |-> [NoRequest EXCEPT !.ep = "analyze", !.pc = "userToken"],
            isProcessing |-> TRUE,
            spotifyInTimeout |-> s.spotifyInTimeout,
            timeoutUntil |-> s.timeoutUntil,
            requestCounts |-> limit.requestCounts]

(* A request of ip arrives at /api/analyze-public-playlist. *)
AnalyzeEntry(r, ip, hasPlaylistId) ==
  /\ Free(r)
  /\ LET e == analyzeEntry(ip, hasPlaylistId, spotifyInTimeout, timeoutUntil,
                           isProcessing, requestCounts, now)
     IN  /\ req' = [req EXCEPT ![r] = e.req]
         /\ isProcessing' = e.isProcessing
         /\ spotifyInTimeout' = e.spotifyInTimeout
         /\ timeoutUntil' = e.timeoutUntil
         /\ requestCounts' = e.requestCounts
  /\ UNCHANGED <<now, scoreVars, calls, cacheVars>>

InitEntry ==
  /\ now = 0
  /\ input = NoReturn
  /\ fn = "none"
  /\ ret = NoReturn
  /\ locals = NoReturn
  /\ isProcessing = FALSE
  /\ \/ spotifyInTimeout = FALSE /\ timeoutUntil = Null
     \/ spotifyInTimeout = TRUE /\ timeoutUntil = rateLimitExpires
  /\ req = [r \in {1, 2} |-> NoRequest]
  /\ requestCounts = EmptyMap
  /\ calls = EmptyMap
  /\ artistCache = EmptyMap
  /\ fetches = 0

(* One caller is followed here, and what its tracks score to has no part   *)
(* in the admission: the loop over the tracks skips them or fails.         *)
NextEntry ==
  \/ Tick
  \/ \E r \in DOMAIN req, hasPlaylistId \in BOOLEAN :
       AnalyzeEntry(r, "10.0.0.1", hasPlaylistId)
  \/ \E r \in DOMAIN req : AnalyzeUserToken(r)
  \/ \E r \in DOMAIN req : AnalyzePlaylist(r)
  \/ \E r \in DOMAIN req : AnalyzeTracks(r)
  \/ \E r \in DOMAIN req : AnalyzeClientToken(r)
  \/ \E r \in DOMAIN req : AnalyzeSkipTrack(r)
  \/ \E r \in DOMAIN req : AnalyzeTrackFailed(r)
  \/ \E r \in DOMAIN req : AnalyzeTrackTimeout(r)

SpecEntry == InitEntry /\ [][NextEntry]_vars

----------------------------------------------------------------------------
(* The aggregation pipeline of the two endpoints (580-583, 761-764): the   *)
(* listeners at the added date are estimated from the followers of the     *)
(* artist, and the track is scored on that estimate.                       *)

(* followers.total of the artist: the thresholds of the rates, the tiers,  *)
(* the caps and the relevance factor.                                      *)
FollowerSamples == ListenerSamples \cup CurrentSamples

(* added_at: whole months and half months before the clock reading, and    *)
(* after it.                                                               *)
AddedAtSamples ==
  {-(k * HoursPerMonth) - h : k \in MonthSamples, h \in {0, HoursPerMonth \div 2}}

InitPipeline ==
  /\ now = 0
  /\ input \in [currentFollowers : FollowerSamples, addedAt : AddedAtSamples]
  /\ fn = "none"
  /\ ret = NoReturn
  /\ locals = NoReturn
  /\ isProcessing = FALSE
  /\ spotifyInTimeout = FALSE
  /\ timeoutUntil = Null
  /\ req = <<>>
  /\ requestCounts = EmptyMap
  /\ calls = EmptyMap
  /\ artistCache = EmptyMap
  /\ fetches = 0

(* One turn of the loop for a well-formed track: ret is the element pushed *)
(* on cloutData, locals what calculateCloutScore computed on the way.      *)
PushCloutEntry ==
  /\ fn = "none"
  /\ fn' = "cloutData.push"
  /\ ret' = cloutEntry(1, input.currentFollowers, input.addedAt, now)
  /\ locals' = cloutScoreLocals(
                 estimateListenersAtDate(input.currentFollowers, input.addedAt, now),
                 input.currentFollowers, input.addedAt, now)
  /\ UNCHANGED <<now, input, serverVars>>

NextPipeline == PushCloutEntry

SpecPipeline == InitPipeline /\ [][NextPipeline]_vars

----------------------------------------------------------------------------
(* The tier table and the caps as the specification states them *)

SpecTierTable ==
  << <<100, Num(20), "Bedroom Producer">>,
     <<500, Num(15), "Soundcloud Rapper">>,
     <<1000, Num(12), "Underground Legend">>,
     <<5000, Num(8), "Local Hero">>,
     <<10000, Num(6), "Early Adopter">>,
     <<50000, Num(4), "Tastemaker">>,
     <<100000, Num(3), "Ahead of Curve">>,
     <<500000, Dec(25, -1), "Indie Enthusiast">>,
     <<1000000, Num(2), "Rising Star Hunter">>,
     <<5000000, Dec(15, -1), "Trending Finder">>,
     <<10000000, Dec(12, -1), "Popular Follower">> >>

SpecTierRows ==
  {<<SpecTierTable[i][2], SpecTierTable[i][3]>> : i \in 1..Len(SpecTierTable)}
    \cup {<<Num(1), "Mainstream">>}

(* The first row whose exclusive upper bound is above listenerAtAdd. *)
SpecFirstRow(listenerAtAdd) ==
  LET hits == {i \in 1..Len(SpecTierTable) : listenerAtAdd < SpecTierTable[i][1]}
      first == CHOOSE i \in hits : \A j \in hits : i <= j
  IN IF hits = {} THEN <<Num(1), "Mainstream">>
     ELSE <<SpecTierTable[first][2], SpecTierTable[first][3]>>

SpecCap(currentListeners) ==
  IF currentListeners < 10000 THEN Num(2)
  ELSE IF currentListeners < 50000 THEN Num(4)
  ELSE IF currentListeners < 100000 THEN Num(6)
  ELSE Infinity(1)

SpecVolumeWeight == MathLog10(Abs(input.currentListeners - input.listenerAtAdd) + 1)

SpecRelevanceFactor ==
  MathMin(Div(Add(MathLog10(Max2(input.currentListeners, 1)), Num(3)), Num(10)), Num(1))

SpecCappedMultiplier ==
  MathMin(SpecFirstRow(input.listenerAtAdd)[1], SpecCap(input.currentListeners))

InputGrowth ==
  calculateInflationAdjustedGrowth(input.currentListeners, input.listenerAtAdd,
                                   input.addedDate, now)

Scored == fn = "calculateCloutScore"

----------------------------------------------------------------------------
(* Claims *)

(* C1: tier classification is total and deterministic: for every            *)
(* non-negative listenerAtAdd the tier and the multiplier calculateCloutScore *)
(* returns are those of exactly one of the 12 named tiers.                  *)
C1_TierTotal ==
  Scored =>
    /\ Cardinality(SpecTierRows) = 12
    /\ Cardinality({r \in SpecTierRows :
                      r = <<ret.earlyDiscoveryMultiplier, ret.discoveryTier>>}) = 1
    /\ Cardinality({r \in SpecTierRows : r[2] = ret.discoveryTier}) = 1

(* The case no rung of the ladder matches. *)
C1_Witness ==
  /\ Scored
  /\ input.listenerAtAdd >= 10000000
  /\ ret.discoveryTier = "Mainstream"
  /\ ret.earlyDiscoveryMultiplier = Num(1)

(* C2: the tier and the multiplier returned are those of the first row of   *)
(* the specification's table whose exclusive upper bound is strictly above  *)
(* listenerAtAdd; a value equal to a bound belongs to the next tier.        *)
C2_TierTable ==
  Scored =>
    <<ret.earlyDiscoveryMultiplier, ret.discoveryTier>> = SpecFirstRow(input.listenerAtAdd)

C2_Witness ==
  /\ Scored
  /\ input.listenerAtAdd = 500
  /\ ret.discoveryTier = "Underground Legend"
  /\ ret.earlyDiscoveryMultiplier = Num(12)

(* C3: the capped multiplier used in the score is min(tier multiplier, cap) *)
(* with cap 2 below 10,000 current listeners, 4 below 50,000, 6 below       *)
(* 100,000 and none from 100,000 on.                                        *)
C3_CappedMultiplier ==
  Scored =>
    /\ locals.cappedMultiplier = SpecCappedMultiplier
    /\ input.currentListeners >= 100000 =>
         locals.cappedMultiplier = SpecFirstRow(input.listenerAtAdd)[1]

C3_Witness ==
  /\ Scored
  /\ input.listenerAtAdd = 500
  /\ input.currentListeners = 2000000
  /\ locals.cappedMultiplier = Num(12)

(* C4: the score returned is round(inflation-adjusted growth * volume       *)
(* weight * capped multiplier * relevance factor), the product of the       *)
(* unrounded values.                                                        *)
C4_Score ==
  Scored =>
    ret.score =
      MathRound(Mul(Mul(Mul(InputGrowth, SpecVolumeWeight), SpecCappedMultiplier),
                    SpecRelevanceFactor))

(* A finite score that the product of the displayed (rounded) fields does  *)
(* not give.                                                               *)
C4_Witness ==
  /\ Scored
  /\ IsFinite(ret.score)
  /\ ret.score # Zero
  /\ ret.score #
       MathRound(Mul(Mul(Mul(ret.inflationAdjustedGrowth, ret.volumeWeight),
                         ret.cappedMultiplier),
                     ret.relevanceFactor))

(* C5: no floor at zero: when the inflation-adjusted growth is negative and *)
(* the absolute growth is not zero, the base score is negative and the      *)
(* score is the rounded negative product.                                   *)
C5_NoFloor ==
  (Scored /\ Less(InputGrowth, Zero)
          /\ input.currentListeners # input.listenerAtAdd) =>
    /\ Less(locals.baseScore, Zero)
    /\ ret.score = MathRound(Mul(locals.baseScore, SpecRelevanceFactor))
    /\ ~Less(Zero, ret.score)
    /\ Less(Mul(locals.baseScore, SpecRelevanceFactor), Dec(-5, -1)) =>
         Less(ret.score, Zero)

C5_Witness ==
  /\ Scored
  /\ Less(InputGrowth, Zero)
  /\ input.currentListeners # input.listenerAtAdd
  /\ Less(ret.score, Zero)

(* C6: with pastListeners = 0, calculateGrowth returns exactly 0 and        *)
(* calculateInflationAdjustedGrowth returns NaN (currentListeners = 0) or    *)
(* an infinity (otherwise), never 0.                                        *)
C6_ZeroGuardAsymmetry ==
  input.listenerAtAdd = 0 =>
    /\ fn = "calculateGrowth" => ret = Zero
    /\ fn = "calculateInflationAdjustedGrowth" =>
         /\ ~IsFinite(ret)
         /\ input.currentListeners = 0 => ret = NaN
         /\ input.currentListeners # 0 => ret.k = "inf"
    /\ Scored =>
         /\ ret.rawGrowth = Zero
         /\ ~IsFinite(locals.inflationAdjustedGrowth)

(* Both functions called on the same arguments by calculateCloutScore. *)
C6_Witness ==
  /\ Scored
  /\ input.listenerAtAdd = 0
  /\ input.currentListeners > 0
  /\ ret.rawGrowth = Zero
  /\ locals.inflationAdjustedGrowth = Infinity(1)

----------------------------------------------------------------------------
(* The aggregation endpoints *)

(* The answer is the summary of an aggregation. *)
Summarised(r) == req[r].pc = "done" /\ req[r].res.status = 200

(* The sum of the cloutScore of the tracks of a summary, from the first. *)
RECURSIVE SpecSum(_)
SpecSum(tracks) ==
  IF tracks = <<>> THEN Zero
  ELSE Add(tracks[1].cloutScore, SpecSum(Tail(tracks)))

(* C7: in the aggregation endpoints a track whose estimated                *)
(* listeners-at-add is 0, whose growth and score are not finite, is not    *)
(* scored: no element of cloutData has followersWhenAdded 0 or a cloutScore *)
(* that is not finite, and the totalClout, averageClout and normalizedScore *)
(* of a summary of one track or more are finite.                           *)
C7_NonFiniteExcluded ==
  \A r \in DOMAIN req :
    /\ \A k \in 1..Len(req[r].cloutData) :
         /\ req[r].cloutData[k].followersWhenAdded # 0
         /\ IsFinite(req[r].cloutData[k].cloutScore)
    /\ Summarised(r) /\ req[r].res.body.trackCount >= 1 =>
         /\ IsFinite(req[r].res.body.totalClout)
         /\ IsFinite(req[r].res.body.averageClout)
         /\ IsFinite(req[r].res.body.normalizedScore)

(* C8: an aggregation that leaves its loop with no track scored, the list  *)
(* empty or every item skipped, answers with the error 'No valid tracks',  *)
(* and no summary has trackCount 0; on both endpoints.                     *)
C8_EmptyResult ==
  \A r \in DOMAIN req :
    /\ req[r].pastLoop /\ req[r].cloutData = <<>> =>
         req[r].res = Response(400, "No valid tracks found in playlist")
    /\ Summarised(r) => req[r].res.body.trackCount # 0

(* C9: an item with no track, no or an empty artists list, or an artist    *)
(* without id is skipped silently: the handler that has just dealt with it *)
(* has not answered, or has answered after leaving the loop at its end,    *)
(* and no element of cloutData is of that item; on both endpoints.         *)
C9_MalformedSkipped ==
  \A r \in DOMAIN req :
    req[r].last \in Malformed =>
      /\ req[r].pc = "done" => req[r].pastLoop
      /\ \A k \in 1..Len(req[r].cloutData) : req[r].cloutData[k].track # req[r].i

(* The summary of a list of 4 tracks that score 100 each. *)
SpecScenario4 == summaryOf([k \in 1..4 |-> [cloutScore |-> Num(100)]]).body

(* C10: a summary of n >= 1 scored tracks has totalClout the sum of the    *)
(* cloutScore of its tracks, averageClout = round(totalClout / n),         *)
(* normalizedScore = round((totalClout / n) * sqrt(n)) and trackCount = n; *)
(* 4 tracks of score 100 give average 100 and normalized 200.              *)
C10_Totals ==
  /\ \A r \in DOMAIN req :
       Summarised(r) /\ Len(req[r].cloutData) >= 1 =>
         LET body == req[r].res.body
             n == Len(req[r].cloutData)
             total == SpecSum(body.tracks)
         IN /\ Len(body.tracks) = n
            /\ body.trackCount = n
            /\ body.totalClout = total
            /\ body.averageClout = MathRound(Div(total, Num(n)))
            /\ body.normalizedScore =
                 MathRound(Mul(Div(total, Num(n)), MathSqrt(n)))
  /\ SpecScenario4.averageClout = Num(100)
  /\ SpecScenario4.normalizedScore = Num(200)
  /\ SpecScenario4.totalClout = Num(400)
  /\ SpecScenario4.trackCount = 4

(* A summary of two tracks scoring 11 and 256: the average 133.5 is given  *)
(* as 134 and 133.5 * sqrt(2) = 188.8 as 189.                              *)
C10_Witness ==
  \E r \in DOMAIN req :
    /\ Summarised(r)
    /\ req[r].res.body.trackCount = 2
    /\ req[r].res.body.totalClout = Num(267)
    /\ req[r].res.body.averageClout = Num(134)
    /\ req[r].res.body.normalizedScore = Num(189)

(* x >= y, false when either is NaN. *)
GreaterEq(x, y) == x.k # "nan" /\ y.k # "nan" /\ ~Less(x, y)

(* C11: the tracks of a summary are the scored items, each once, in        *)
(* descending order of cloutScore (tracks[i].cloutScore >=                 *)
(* tracks[i+1].cloutScore), and items of equal score are in the order of   *)
(* the list they came from.                                                *)
C11_SortedStable ==
  \A r \in DOMAIN req :
    Summarised(r) =>
      LET tracks == req[r].res.body.tracks
      IN /\ Len(tracks) = Len(req[r].cloutData)
         /\ \A k \in 1..Len(req[r].cloutData) :
              \E j \in 1..Len(tracks) : tracks[j] = req[r].cloutData[k]
         /\ \A j \in 1..(Len(tracks) - 1) :
              GreaterEq(tracks[j].cloutScore, tracks[j + 1].cloutScore)
         /\ \A j, k \in 1..Len(tracks) :
              j < k /\ tracks[j].cloutScore = tracks[k].cloutScore =>
                tracks[j].track < tracks[k].track

----------------------------------------------------------------------------
(* estimateListenersAtDate *)

Estimated == fn = "estimateListenersAtDate"

(* How many months before the clock reading input.addedDate lies. *)
InputMonths == MonthsAgo(now, input.addedDate)

(* The monthly rate of the artist as the specification states it: the rate *)
(* of the first row whose bound currentListeners is below, else 1%.        *)
SpecRateTable == <<<<10000, 5>>, <<100000, 3>>, <<1000000, 2>>>>

SpecRate(currentListeners) ==
  LET rows == {k \in 1..Len(SpecRateTable) : currentListeners < SpecRateTable[k][1]}
  IN IF rows = {} THEN Dec(1, -2)
     ELSE Dec(SpecRateTable[CHOOSE k \in rows : \A j \in rows : k <= j][2], -2)

(* C12: with the added date equal to the clock reading (months_ago = 0)    *)
(* estimateListenersAtDate returns currentListeners itself.                *)
C12_ZeroElapsed ==
  Estimated /\ input.addedDate = now => ret = input.currentListeners

C12_Witness ==
  /\ Estimated
  /\ input.addedDate = now
  /\ input.currentListeners = 10000
  /\ ret = 10000

(* C13: for fixed currentListeners the estimate does not grow with         *)
(* months_ago: every earlier added date gives an estimate that is not      *)
(* larger; and an added date that is not in the future gives a natural     *)
(* number not above currentListeners.                                      *)
C13_Monotone ==
  Estimated =>
    /\ \A k \in MonthSamples :
         k > InputMonths =>
           estimateListenersAtDate(input.currentListeners,
                                   now - k * HoursPerMonth, now) <= ret
    /\ InputMonths >= 0 => ret \in 0..input.currentListeners

(* 10000 listeners and one month: 9587, and fewer two months back. *)
C13_Witness ==
  /\ Estimated
  /\ input.currentListeners = 10000
  /\ InputMonths = 1
  /\ ret = 9587
  /\ estimateListenersAtDate(10000, now - 2 * HoursPerMonth, now) < ret

(* C14: the estimate is floor(currentListeners / (1 + artist_rate +        *)
(* 0.013)^months_ago), the artist_rate 5% below 10,000, 3% below 100,000,  *)
(* 2% below 1,000,000 and 1% otherwise, a value equal to a bound taking    *)
(* the rate of the next bracket.                                           *)
C14_Estimate ==
  Estimated =>
    ret = FloorInt(Div(Num(input.currentListeners),
                       MathPow(Add(Num(1),
                                   Add(SpecRate(input.currentListeners), Dec(13, -3))),
                               InputMonths)))

(* 1,000,000 listeners take 1%: a month back they are                      *)
(* floor(1000000 / 1.023) = 977517.                                        *)
C14_Witness ==
  /\ Estimated
  /\ input.currentListeners = 1000000
  /\ InputMonths = 1
  /\ ret = 977517

(* 1.043^12 in thousandths, and the estimate for 10000 listeners and 12    *)
(* months.                                                                 *)
Example15 == Estimated /\ input.currentListeners = 10000 /\ InputMonths = 12

Pow15 ==
  MathRound(Mul(MathPow(Add(Num(1), Add(artistGrowthRate(10000), spotifyGrowthRate)), 12),
                Num(1000)))

(* C15 as stated: for 10000 listeners and 12 months the combined rate is   *)
(* 4.3%, 1.043^12 is 1.693 to three decimals and the estimate is 5908 to   *)
(* one percent.                                                            *)
C15_Original ==
  Example15 =>
    /\ Add(artistGrowthRate(10000), spotifyGrowthRate) = Dec(43, -3)
    /\ Pow15 = Num(1693)
    /\ Abs(ret - 5908) <= 59

(* C15 amended: for 10000 listeners and 12 months the combined rate is     *)
(* 4.3%, 1.043^12 is 1.657 to three decimals and the estimate is 6033.     *)
C15_Example ==
  Example15 =>
    /\ Add(artistGrowthRate(10000), spotifyGrowthRate) = Dec(43, -3)
    /\ Pow15 = Num(1657)
    /\ ret = 6033

C15_Witness == Example15 /\ ret = 6033

----------------------------------------------------------------------------
(* Purity *)

(* C16: scoring is a function of its arguments alone: calculateCloutScore  *)
(* and estimateListenersAtDate, called again with the same arguments,      *)
(* return what they returned before, whenever the calls are made; no       *)
(* hidden state such as the wall clock has a part in the result.           *)
C16_Pure ==
  [][(/\ fn \in {"calculateCloutScore", "estimateListenersAtDate"}
      /\ fn' = fn
      /\ input' = input) => ret' = ret]_vars

----------------------------------------------------------------------------
(* The relevance factor *)

(* C17: the relevance factor lies in [0.3, 1]; it is 0.3 for               *)
(* currentListeners 0 and 1, does not fall as currentListeners grows, and  *)
(* is exactly 1 from 10,000,000 on.                                        *)
C17_RelevanceFactor ==
  Scored =>
    /\ ~Less(locals.relevanceFactor, Dec(3, -1))
    /\ ~Less(Num(1), locals.relevanceFactor)
    /\ IsFinite(locals.relevanceFactor)
    /\ input.currentListeners \in {0, 1} => locals.relevanceFactor = Dec(3, -1)
    /\ input.currentListeners >= 10000000 => locals.relevanceFactor = Num(1)
    /\ \A c \in CurrentSamples :
         c >= input.currentListeners =>
           ~Less(relevanceFactorOf(c), locals.relevanceFactor)

(* 9,999,999 listeners are still below 1; 10,000,000 are not. *)
C17_Witness ==
  /\ Scored
  /\ input.currentListeners = 9999999
  /\ Less(locals.relevanceFactor, Num(1))
  /\ relevanceFactorOf(10000000) = Num(1)
  /\ relevanceFactorOf(0) = Dec(3, -1)

----------------------------------------------------------------------------
(* The processing lock *)

(* The handler of r is between isProcessing = true and the finally. *)
InFlight(r) ==
  /\ req[r].ep = "analyze"
  /\ req[r].pc \in {"userToken", "playlist", "tracks", "clientToken", "loop"}

(* A request to POST /api/analyze-public-playlist arrives for r in this    *)
(* step.                                                                   *)
Arrives(r) == Free(r) /\ req'[r] # req[r] /\ req'[r].ep = "analyze"

(* The request that arrives for r in this step is answered in the same     *)
(* step, before any await and so before any fetch, with one of errors.     *)
RejectedWith(r, errors) ==
  /\ req'[r].pc = "done"
  /\ req'[r].res.error \in errors
  /\ req'[r].res.status \in {429, 503}
  /\ isProcessing' = isProcessing

(* C18 as stated: at most one request is between isProcessing = true and   *)
(* its release, and a request that arrives while the flag is set is        *)
(* rejected with 429 PROCESSING, with no Spotify fetch.                    *)
C18_Original ==
  /\ [](Cardinality({r \in DOMAIN req : InFlight(r)}) <= 1)
  /\ [][\A r \in DOMAIN req :
          isProcessing /\ Arrives(r) => RejectedWith(r, {"PROCESSING"})]_vars

(* C18 amended: at most one request is between isProcessing = true and its *)
(* release, the flag being set exactly while one is; and a request that    *)
(* arrives while the flag is set is rejected with no Spotify fetch, with   *)
(* 429 PROCESSING, or with 503 SPOTIFY_TIMEOUT when the timeout is on.     *)
C18_Serialized ==
  /\ [](/\ Cardinality({r \in DOMAIN req : InFlight(r)}) <= 1
        /\ isProcessing <=> \E r \in DOMAIN req : InFlight(r))
  /\ [][\A r \in DOMAIN req :
          isProcessing /\ Arrives(r) =>
            IF isSpotifyInTimeout(spotifyInTimeout, timeoutUntil, now).result
            THEN RejectedWith(r, {"SPOTIFY_TIMEOUT"})
            ELSE RejectedWith(r, {"PROCESSING"})]_vars

(* One request is in its loop and the other was rejected with PROCESSING.  *)
C18_Witness ==
  \E r, q \in DOMAIN req :
    /\ InFlight(r)
    /\ req[r].pc = "loop"
    /\ isProcessing
    /\ req[q].pc = "done"
    /\ req[q].res = Response(429, "PROCESSING")

(* The accepted calls of an IP that lie in the 60-second window ending at  *)
(* its k-th call, that call excluded.                                      *)
AcceptedBefore(ip, k) ==
  {j \in 1..(k - 1) : /\ calls[ip][j].allowed
                      /\ calls[ip][k].time - calls[ip][j].time < 60 * 1000}

(* C19: for every IP, no 60-second window holds more than 10 accepted      *)
(* calls of checkRateLimit: a call is rejected when 10 accepted calls of   *)
(* that IP lie in the window that ends with it, and accepted when fewer    *)
(* than 10 do.                                                             *)
C19_Throttled ==
  \A ip \in DOMAIN calls :
    \A k \in 1..Len(calls[ip]) :
      /\ calls[ip][k].allowed <=> Cardinality(AcceptedBefore(ip, k)) < 10
      /\ calls[ip][k].allowed => Cardinality(AcceptedBefore(ip, k)) + 1 <= 10

(* The 11th call of an IP is rejected inside the window of the first 10,   *)
(* and its 12th call is accepted once they have left the window.           *)
C19_Witness ==
  \E ip \in DOMAIN calls :
    /\ Len(calls[ip]) = 12
    /\ \A k \in 1..10 : calls[ip][k].allowed
    /\ ~calls[ip][11].allowed
    /\ calls[ip][11].time - calls[ip][1].time < 60 * 1000
    /\ calls[ip][12].allowed

(* The retry-after of a 429 response is a number of seconds, 3600 at most. *)
AtMostAnHour(header) ==
  LET seconds == retryAfterOf(header)
  IN  IsFinite(seconds) /\ ~Less(Num(3600), seconds)

(* C20: a call of getCachedArtist makes at most 3 requests; it waits for   *)
(* another attempt only after a 429 whose retry-after is 3600 s at most;   *)
(* any other error is thrown on at once; and after three rate-limited      *)
(* attempts the call throws 'Max retries exceeded for artist fetch'.       *)
C20_BoundedRetries ==
  fn = "getCachedArtist" =>
    /\ fetches <= 3
    /\ locals.pc = "backoff" =>
         /\ locals.retries < 3
         /\ locals.error.status = 429
         /\ AtMostAnHour(locals.error.retryAfter)
    /\ (locals.error # NoError /\ locals.error.status # 429) =>
         /\ locals.pc = "thrown"
         /\ ret = Thrown(locals.error)
    /\ locals.retries = 3 =>
         /\ locals.pc = "thrown"
         /\ fetches = 3
         /\ ret = Thrown("Max retries exceeded for artist fetch")

(* C21: the waits of getCachedArtist back off exponentially: the wait      *)
(* before a retry is strictly longer than the wait before the retry        *)
(* before it, unless that one had reached the cap of 5 seconds, and then   *)
(* it is the cap again.                                                    *)
C21_ExponentialBackoff ==
  [][(/\ FetchAt("try")
      /\ locals.retries >= 1
      /\ locals'.pc = "backoff")
       => \/ Less(locals.waitTime, locals'.waitTime)
          \/ /\ ~Less(locals.waitTime, Num(5000))
             /\ ~Less(locals'.waitTime, Num(5000))
             /\ ~Less(Num(5000), locals'.waitTime)]_vars

(* How many more times at most the handler of a request in flight is       *)
(* resumed before it answers.                                              *)
StepsLeft(q) ==
  IF q.pc = "userToken" THEN MaxTracks + 4
  ELSE IF q.pc = "playlist" THEN MaxTracks + 3
  ELSE IF q.pc = "tracks" THEN MaxTracks + 2
  ELSE IF q.pc = "clientToken" THEN q.n + 1
  ELSE IF q.pc = "loop" THEN q.n - q.i
  ELSE 0

(* C22: the processing lock is always released.  Every step of a request   *)
(* that has set isProcessing = true brings it nearer to its answer, and    *)
(* with the answer, whatever it is, isProcessing is set back to false; a   *)
(* request that is rejected on arrival leaves isProcessing as it is; and   *)
(* isProcessing is false whenever no analysis is running.                  *)
C22_LockReleased ==
  /\ [][\A r \in DOMAIN req :
          /\ (InFlight(r) /\ req'[r] # req[r]) =>
               /\ StepsLeft(req'[r]) < StepsLeft(req[r])
               /\ req'[r].pc = "done" => ~isProcessing'
          /\ (Arrives(r) /\ req'[r].pc = "done") => isProcessing' = isProcessing]_vars
  /\ [](\A r \in DOMAIN req : InFlight(r) => StepsLeft(req[r]) > 0)
  /\ []((\A r \in DOMAIN req : ~InFlight(r)) => ~isProcessing)

(* One request was rejected with 429 PROCESSING while the other held the   *)
(* lock, and that one has answered 500 since and released it.              *)
C22_Witness ==
  /\ ~isProcessing
  /\ \E r, q \in DOMAIN req :
       /\ req[r].pc = "done" /\ req[r].res.status = 500
       /\ req[q].pc = "done" /\ req[q].res.error = "PROCESSING"

(* C23: the Spotify timeout.  Whenever the timeout is set in a step it     *)
(* ends 24 hours after that step; while it is set and the clock has not    *)
(* passed timeoutUntil, a request that arrives at                          *)
(* /api/analyze-public-playlist is answered 503 SPOTIFY_TIMEOUT at once    *)
(* and the timeout is left as it is; an arrival after timeoutUntil has     *)
(* passed resets spotifyInTimeout to false and timeoutUntil to null, and   *)
(* nothing resets them earlier; and spotifyInTimeout is never true with    *)
(* timeoutUntil null.                                                      *)
C23_TimeoutMachine ==
  /\ [][(spotifyInTimeout' /\ timeoutUntil' # timeoutUntil)
          => timeoutUntil' = now + 24]_vars
  /\ [][\A r \in DOMAIN req :
          (Arrives(r) /\ spotifyInTimeout) =>
            IF now <= timeoutUntil
            THEN /\ req'[r] = Answered("analyze", Response(503, "SPOTIFY_TIMEOUT"))
                 /\ spotifyInTimeout'
                 /\ timeoutUntil' = timeoutUntil
            ELSE /\ ~spotifyInTimeout'
                 /\ timeoutUntil' = Null]_vars
  /\ [][(spotifyInTimeout /\ ~spotifyInTimeout')
          => (now > timeoutUntil /\ timeoutUntil' = Null)]_vars
  /\ [](spotifyInTimeout => timeoutUntil # Null)

(* A request has been rejected on arrival with 503 SPOTIFY_TIMEOUT during  *)
(* a timeout that a 429 of Spotify has set and that has not ended.         *)
C23_Witness ==
  /\ spotifyInTimeout
  /\ timeoutUntil > rateLimitExpires
  /\ now <= timeoutUntil
  /\ \E r \in DOMAIN req :
       req[r] = Answered("analyze", Response(503, "SPOTIFY_TIMEOUT"))

(* C24: when getCachedArtist throws SPOTIFY_TIMEOUT in the track loop of   *)
(* /api/analyze-public-playlist, the handler fetches no further artist:    *)
(* it answers 503 SPOTIFY_TIMEOUT in that step, whatever it has scored.    *)
C24_TimeoutEndsAnalysis ==
  [][\A r \in DOMAIN req :
       AnalyzeTrackTimeout(r) =>
         /\ req'[r].pc = "done"
         /\ req'[r].res = Response(503, "SPOTIFY_TIMEOUT")]_vars

(* C25: a failure while one track of /api/analyze-public-playlist is       *)
(* fetched or scored skips that track only.  Every turn of the loop deals  *)
(* with exactly the next item of the list and leaves what was scored       *)
(* before in place, a turn that fails adds nothing, the loop goes on while *)
(* items remain, and the trackCount of the answer is the number of tracks  *)
(* that were scored.                                                       *)
C25_FailureSkipsOneTrack ==
  /\ [][\A r \in DOMAIN req :
          (At(r, "analyze", "loop") /\ req'[r] # req[r]) =>
            /\ req'[r].i = req[r].i + 1
            /\ req'[r].i < req[r].n => req'[r].pc = "loop"
            /\ \/ req'[r].cloutData = req[r].cloutData
               \/ /\ Len(req'[r].cloutData) = Len(req[r].cloutData) + 1
                  /\ SubSeq(req'[r].cloutData, 1, Len(req[r].cloutData))
                       = req[r].cloutData
                  /\ req'[r].cloutData[Len(req'[r].cloutData)].track = req'[r].i]_vars
  /\ [][\A r \in DOMAIN req :
          AnalyzeTrackFailed(r) => /\ req'[r].cloutData = req[r].cloutData
                                   /\ req'[r].i = req[r].i + 1]_vars
  /\ [](\A r \in DOMAIN req :
          (req[r].ep = "analyze" /\ req[r].pc = "done" /\ req[r].res.status = 200) =>
            /\ req[r].i = req[r].n
            /\ req[r].res.body.trackCount = Len(req[r].cloutData)
            /\ {req[r].res.body.tracks[k].track : k \in 1..Len(req[r].res.body.tracks)}
                 = {req[r].cloutData[k].track : k \in 1..Len(req[r].cloutData)})

(* Of two tracks the first was scored and the second, a well-formed item,  *)
(* failed without a timeout: the answer counts one track.                  *)
C25_Witness ==
  \E r \in DOMAIN req :
    /\ req[r].ep = "analyze" /\ req[r].pc = "done" /\ req[r].res.status = 200
    /\ req[r].n = 2 /\ req[r].last = "ok"
    /\ ~spotifyInTimeout
    /\ Len(req[r].cloutData) = 1
    /\ req[r].cloutData[1].track = 1
    /\ req[r].res.body.trackCount = 1

(* The cache holds an entry for the artist that is younger than 1 hour. *)
FreshEntry(artistId) ==
  /\ artistId \in DOMAIN artistCache
  /\ now - artistCache[artistId].timestamp < 1

(* C26: a call of getCachedArtist returns the cached data, with no request *)
(* to Spotify, exactly when the cache holds an entry for the artist that   *)
(* is younger than 1 hour, and it goes on to fetch otherwise; the cache is *)
(* written by a successful fetch only, for the artist asked for, with the  *)
(* data fetched and the time of the fetch; a fetch that fails leaves the   *)
(* cache as it is.                                                         *)
C26_CacheFreshness ==
  /\ [][\A artistId \in ArtistIds :
          GetCachedArtist(artistId) =>
            IF FreshEntry(artistId)
            THEN /\ locals'.pc = "returned"
                 /\ ret' = artistCache[artistId].data
                 /\ fetches' = 0
            ELSE /\ locals'.pc = "try"
                 /\ fetches' = 0]_vars
  /\ [][artistCache' # artistCache =>
          /\ FetchAt("try")
          /\ locals'.pc = "returned"
          /\ fetches' = fetches + 1
          /\ artistCache' = mapSet(artistCache, input.artistId,
                                   [data |-> ret', timestamp |-> now])]_vars
  /\ [][(FetchAt("try") /\ locals'.pc \in {"backoff", "thrown"})
          => artistCache' = artistCache]_vars
  /\ [](\A artistId \in DOMAIN artistCache : artistCache[artistId].timestamp <= now)

(* A call has returned the entry of the cache, written within the hour,    *)
(* without a request, while the entry of another artist is an hour old.    *)
C26_Witness ==
  /\ FetchAt("returned")
  /\ fetches = 0
  /\ FreshEntry(input.artistId)
  /\ ret = artistCache[input.artistId].data
  /\ \E other \in DOMAIN artistCache : now - artistCache[other].timestamp >= 1

(* The request that arrives for r in this step has passed checkRateLimit:  *)
(* it is answered 400 for its missing playlistId, or it takes the lock.    *)
PassesRateLimit(r) ==
  /\ Free(r)
  /\ \/ req'[r] = Answered("analyze", Response(400, "Playlist ID is required"))
     \/ req'[r].pc = "userToken" /\ isProcessing'

(* C27: a request to /api/analyze-public-playlist that is rejected with    *)
(* 503 or with 429, be it PROCESSING or the rate limit, leaves             *)
(* requestCounts as it is; requestCounts changes only in the step of a     *)
(* request that passes checkRateLimit, and then by the time of that        *)
(* request appended to what the last 60 seconds hold for its IP.           *)
C27_RejectedKeepQuota ==
  /\ [][\A r \in DOMAIN req :
          (Arrives(r) /\ req'[r].pc = "done" /\ req'[r].res.status \in {503, 429})
            => requestCounts' = requestCounts]_vars
  /\ [][requestCounts' # requestCounts =>
          /\ \E r \in DOMAIN req : PassesRateLimit(r)
          /\ \E ip \in DOMAIN requestCounts' :
               /\ requestCounts'[ip] =
                    Append(SelectSeq(getOrEmpty(requestCounts, ip),
                                     LAMBDA time : DateNow(now) - time < 60 * 1000),
                           DateNow(now))
               /\ \A other \in DOMAIN requestCounts' \ {ip} :
                    /\ other \in DOMAIN requestCounts
                    /\ requestCounts'[other] = requestCounts[other]]_vars

(* The caller has 10 accepted requests of this minute on record and its    *)
(* next request was rejected with 429 for the rate limit.                  *)
C27_Witness ==
  /\ \E r \in DOMAIN req :
       req[r] = Answered("analyze", Response(429, "Too many requests"))
  /\ \E ip \in DOMAIN requestCounts :
       /\ Len(requestCounts[ip]) = 10
       /\ \A k \in 1..10 : requestCounts[ip][k] = DateNow(now)

Pushed == fn = "cloutData.push"

C29_AddedAgoMonths ==
  Pushed => ret.addedAgo = MonthsAgo(now, input.addedAt)

(* C30: the discovery bonus never rewards a later discovery more: the tier *)
(* multiplier of the scored listenerAtAdd is >= that of every larger       *)
(* listenerAtAdd, its capped multiplier is >= the capped multiplier of     *)
(* every larger listenerAtAdd at the same currentListeners, and the capped *)
(* multiplier lies between 1 and the tier multiplier.                      *)
C30_BonusMonotone ==
  Scored =>
    /\ \A b \in ListenerSamples :
         input.listenerAtAdd <= b =>
           LET later == discoveryTierOf(b).earlyDiscoveryMultiplier
           IN /\ GreaterEq(locals.tier.earlyDiscoveryMultiplier, later)
              /\ GreaterEq(locals.cappedMultiplier,
                           cappedMultiplierOf(later, input.currentListeners))
    /\ GreaterEq(locals.cappedMultiplier, Num(1))
    /\ GreaterEq(locals.tier.earlyDiscoveryMultiplier, locals.cappedMultiplier)

(* An artist found at 999 listeners who stays under 50000: the tier gives  *)
(* 12 where the next one gives 8, and the cap brings both down to 4.       *)
C30_Witness ==
  /\ Scored
  /\ input.listenerAtAdd = 999
  /\ input.currentListeners = 49999
  /\ locals.tier.earlyDiscoveryMultiplier = Num(12)
  /\ discoveryTierOf(1000).earlyDiscoveryMultiplier = Num(8)
  /\ locals.cappedMultiplier = Num(4)
  /\ Less(locals.cappedMultiplier, locals.tier.earlyDiscoveryMultiplier)

====
